---- MODULE Spec2Model ----
(***************************************************************************)
(* A model of the resilient acquisition layer of                           *)
(* src/ENHANCED_YAHOO_FINANCE_FETCHER.py: CircuitBreaker, the backoff      *)
(* policy, the validity cache, the bar validator and fetch_ohlc.           *)
(*                                                                         *)
(* Time is the monotonic clock in whole seconds.  The code only ever       *)
(* compares differences of clock readings (lines 102, 195, 348), so the    *)
(* model is written in the frame of reference of the clock: the reading    *)
(* `now` stays where it is and the passage of d seconds moves every stored *)
(* instant d seconds into the past (Elapse).  An instant further back than *)
(* any interval it is compared with is kept at that distance.  Every       *)
(* reading is positive, as time.monotonic() is on the supported platforms; *)
(* the truthiness test on last_failure_time (line 101) is kept as written. *)
(***************************************************************************)
EXTENDS Integers, Sequences, FiniteSets, TLC

VARIABLES
    now,               \* time.monotonic()
    cfg,               \* the configuration imported at lines 21-43
    cb,                \* self.circuit_breaker
    cache,             \* self.cache
    stats,             \* self.cache_stats
    rate_limit_until,  \* self.rate_limit_until
    th,                \* per caller: position in fetch_ohlc, its locals, its result
    obs                \* the last call made directly on the CircuitBreaker

vars == <<now, cfg, cb, cache, stats, rate_limit_until, th, obs>>

----------------------------------------------------------------------------
(* Bounds of the exploration.                                              *)

MaxThreshold == 3     \* CIRCUIT_BREAKER_THRESHOLD ranges over 1..MaxThreshold
MaxAttempts == 3      \* YFINANCE_RETRY_ATTEMPTS ranges over 1..MaxAttempts
MaxReset == 2         \* CIRCUIT_BREAKER_RESET_INTERVAL ranges over 1..MaxReset
MaxFailures == 4      \* record_failure is not called past this failure_count
MaxProbes == 3        \* can_attempt is called until this many calls have passed a probe
MaxLookups == 1       \* cached fetches are made while hits + misses is below this
MaxReads == 2         \* the same, where the TTL is 50 s
MaxBackoff == 8       \* YFINANCE_RETRY_MAX_DELAY ranges over 1..MaxBackoff
MaxRows == 2          \* the validator is given frames of up to this many bars

----------------------------------------------------------------------------
(* Python's None, for last_failure_time.                                   *)

None == -1

----------------------------------------------------------------------------
(* CircuitBreaker, lines 69-109.  Each method is a function of the breaker *)
(* record and the clock reading; can_attempt returns its result together   *)
(* with the breaker it leaves behind, because it mutates.                  *)

CircuitBreakerInit ==
    [failure_count |-> 0, last_failure_time |-> None, is_open |-> FALSE]

record_success_keep_count(b) == [b EXCEPT !.is_open = FALSE]

record_success(b) ==
    [b EXCEPT !.failure_count = 0, !.is_open = FALSE]

record_failure_strict(b, t, threshold) ==
    LET fc == b.failure_count + 1 IN
    [failure_count     |-> fc,
     last_failure_time |-> t,
     is_open           |-> IF fc > threshold THEN TRUE ELSE b.is_open]

record_failure(b, t, threshold) ==
    LET fc == b.failure_count + 1 IN
    [failure_count     |-> fc,
     last_failure_time |-> t,
     is_open           |-> IF fc >= threshold THEN TRUE ELSE b.is_open]

\* `if self.last_failure_time:` is false for None and for 0.0
Truthy(t) == t # None /\ t # 0

\* a breaker that lets every attempt through
can_attempt_always(b, t, reset_interval) == [ret |-> TRUE, cb |-> b]

\* a probe that closes the breaker and keeps the count of failures
can_attempt_half_open(b, t, reset_interval) ==
    IF ~b.is_open
    THEN [ret |-> TRUE, cb |-> b]
    ELSE IF Truthy(b.last_failure_time)
            /\ t - b.last_failure_time >= reset_interval
         THEN [ret |-> TRUE, cb |-> [b EXCEPT !.is_open = FALSE]]
         ELSE [ret |-> FALSE, cb |-> b]

\* a probe on trial: it closes the breaker and forgives one failure only,
\* so the next failure opens the breaker again
can_attempt_on_trial(b, t, reset_interval) ==
    IF ~b.is_open
    THEN [ret |-> TRUE, cb |-> b]
    ELSE IF Truthy(b.last_failure_time)
            /\ t - b.last_failure_time >= reset_interval
         THEN [ret |-> TRUE,
               cb  |-> [b EXCEPT !.failure_count = @ - 1, !.is_open = FALSE]]
         ELSE [ret |-> FALSE, cb |-> b]

can_attempt_no_reset(b, t, reset_interval) ==
    IF ~b.is_open
    THEN [ret |-> TRUE, cb |-> b]
    ELSE IF Truthy(b.last_failure_time)
            /\ t - b.last_failure_time >= reset_interval
         THEN [ret |-> TRUE, cb |-> b]
         ELSE [ret |-> FALSE, cb |-> b]

can_attempt(b, t, reset_interval) ==
    IF ~b.is_open
    THEN [ret |-> TRUE, cb |-> b]
    ELSE IF Truthy(b.last_failure_time)
            /\ t - b.last_failure_time >= reset_interval
         THEN [ret |-> TRUE,
               cb  |-> [b EXCEPT !.failure_count = 0, !.is_open = FALSE]]
         ELSE [ret |-> FALSE, cb |-> b]

----------------------------------------------------------------------------
(* Data.  A bar is a record over the six canonical columns; NaN is pandas' *)
(* missing value, on which every comparison is false; PosInf and NegInf    *)
(* compare as the largest and smallest numbers.  A frame is the set of its *)
(* column names and the sequence of its rows.                              *)

NaN == -99
PosInf == 1000
NegInf == -1000

RequiredCols == {"timestamp", "open", "high", "low", "close", "volume"}

Lt(a, b) == a # NaN /\ b # NaN /\ a < b

Count(rows, P(_)) == Cardinality({i \in 1..Len(rows) : P(rows[i])})

\* Series.min()/max()/sum() skip NaN; an all-NaN column gives NaN (sum 0)
ColMin(rows, f) ==
    LET S == {rows[i][f] : i \in 1..Len(rows)} \ {NaN} IN
    IF S = {} THEN NaN ELSE CHOOSE m \in S : \A x \in S : m <= x

ColMax(rows, f) ==
    LET S == {rows[i][f] : i \in 1..Len(rows)} \ {NaN} IN
    IF S = {} THEN NaN ELSE CHOOSE m \in S : \A x \in S : m >= x

RECURSIVE ColSum(_, _)
ColSum(rows, f) ==
    IF rows = <<>> THEN 0
    ELSE (IF Head(rows)[f] = NaN THEN 0 ELSE Head(rows)[f]) + ColSum(Tail(rows), f)

\* an emptiness test that finds no frame empty
NeverEmpty(df) == FALSE

IsEmptyFrame(df) == df.columns = {} \/ df.rows = <<>>

----------------------------------------------------------------------------
(* DataValidationReport, lines 112-133.                                    *)

NewReport == [is_valid |-> TRUE, errors |-> <<>>, warnings |-> <<>>, stats |-> <<>>]

\* an add_error that lists the line and leaves is_valid as it is
add_error_keep_valid(r, e) == [r EXCEPT !.errors = Append(@, e)]

\* an add_error that keeps only the latest line
add_error_replace(r, e) == [r EXCEPT !.is_valid = FALSE, !.errors = <<e>>]

add_error(r, e) == [r EXCEPT !.is_valid = FALSE, !.errors = Append(@, e)]

add_warning(r, w) == [r EXCEPT !.warnings = Append(@, w)]

add_stat(r, k, v) == [r EXCEPT !.stats = Append(@, [key |-> k, val |-> v])]

\* `if n > 0: report.add_error(...)`, the error line carrying the count n
ErrIf(r, kind, n) == IF n > 0 THEN add_error(r, [kind |-> kind, count |-> n]) ELSE r

----------------------------------------------------------------------------
(* _validate_ohlc_data, lines 203-294.  wall is datetime.utcnow(), read    *)
(* from the wall clock, in the unit of the bars' timestamps.               *)

\* a relational check that stops at the first violated relation
CheckRelationsFirstOnly(r, rows) ==
    LET hl == Count(rows, LAMBDA b : Lt(b.high, b.low))
        ho == Count(rows, LAMBDA b : Lt(b.high, b.open))
        hc == Count(rows, LAMBDA b : Lt(b.high, b.close))
        lo == Count(rows, LAMBDA b : Lt(b.open, b.low))
        lc == Count(rows, LAMBDA b : Lt(b.close, b.low))
    IN IF hl > 0 THEN ErrIf(r, "high<low", hl)
       ELSE IF ho > 0 THEN ErrIf(r, "high<open", ho)
       ELSE IF hc > 0 THEN ErrIf(r, "high<close", hc)
       ELSE IF lo > 0 THEN ErrIf(r, "low>open", lo)
       ELSE ErrIf(r, "low>close", lc)

CheckRelations(r, rows) ==
    LET r1 == ErrIf(r,  "high<low",   Count(rows, LAMBDA b : Lt(b.high, b.low)))
        r2 == ErrIf(r1, "high<open",  Count(rows, LAMBDA b : Lt(b.high, b.open)))
        r3 == ErrIf(r2, "high<close", Count(rows, LAMBDA b : Lt(b.high, b.close)))
        r4 == ErrIf(r3, "low>open",   Count(rows, LAMBDA b : Lt(b.open, b.low)))
        r5 == ErrIf(r4, "low>close",  Count(rows, LAMBDA b : Lt(b.close, b.low)))
    IN r5

NaNCount(rows) ==
    Count(rows, LAMBDA b : b.open = NaN) + Count(rows, LAMBDA b : b.high = NaN)
    + Count(rows, LAMBDA b : b.low = NaN) + Count(rows, LAMBDA b : b.close = NaN)
    + Count(rows, LAMBDA b : b.volume = NaN)

IsInf(x) == x = PosInf \/ x = NegInf

InfCount(rows) ==
    Count(rows, LAMBDA b : IsInf(b.open)) + Count(rows, LAMBDA b : IsInf(b.high))
    + Count(rows, LAMBDA b : IsInf(b.low)) + Count(rows, LAMBDA b : IsInf(b.close))

CheckNaN(r, rows) ==
    ErrIf(ErrIf(r, "nan", NaNCount(rows)), "inf", InfCount(rows))

CheckVolume(r, rows) ==
    ErrIf(r, "negative_volume", Count(rows, LAMBDA b : Lt(b.volume, 0)))

\* a count that marks every row whose timestamp occurs more than once
DuplicatedCountAll(rows) ==
    Cardinality({i \in 1..Len(rows) :
                    \E j \in 1..Len(rows) :
                        j # i /\ rows[j].timestamp = rows[i].timestamp})

\* Series.duplicated(): a row is marked when an earlier row has its value
DuplicatedCount(rows) ==
    Cardinality({i \in 1..Len(rows) :
                    \E j \in 1..(i - 1) : rows[j].timestamp = rows[i].timestamp})

CheckDuplicates(r, rows) ==
    ErrIf(r, "duplicate_timestamps", DuplicatedCount(rows))

\* a freshness check that reports stale data as an error
CheckFreshnessStaleIsError(r, rows, wall, c) ==
    LET age == wall - ColMax(rows, "timestamp")
        r1  == IF age > c.freshness_max_age
               THEN add_error(r, [kind |-> "stale", count |-> age]) ELSE r
        r2  == IF age < c.freshness_min_age
               THEN add_error(r1, [kind |-> "future", count |-> age]) ELSE r1
    IN r2

CheckFreshness(r, rows, wall, c) ==
    LET age == wall - ColMax(rows, "timestamp")
        r1  == IF age > c.freshness_max_age
               THEN add_warning(r, [kind |-> "stale", age |-> age]) ELSE r
        r2  == IF age < c.freshness_min_age
               THEN add_error(r1, [kind |-> "future", count |-> age]) ELSE r1
    IN r2

\* statistics that are left out of a report with errors
AddStatsIfValid(r, rows) ==
    IF r.is_valid
    THEN add_stat(add_stat(add_stat(r, "row_count", <<Len(rows)>>),
                           "price_range",
                           <<ColMin(rows, "open"), ColMax(rows, "open"),
                             ColMin(rows, "close"), ColMax(rows, "close")>>),
                  "volume_total", <<ColSum(rows, "volume")>>)
    ELSE r

AddStats(r, rows) ==
    LET r1 == add_stat(r, "row_count", <<Len(rows)>>)
        r2 == add_stat(r1, "price_range",
                       <<ColMin(rows, "open"), ColMax(rows, "open"),
                         ColMin(rows, "close"), ColMax(rows, "close")>>)
        r3 == add_stat(r2, "volume_total", <<ColSum(rows, "volume")>>)
    IN r3

validate_ohlc_data(df, wall, c) ==
    IF IsEmptyFrame(df)
    THEN add_error(NewReport, [kind |-> "empty", count |-> 0])
    ELSE IF RequiredCols \ df.columns # {}
    THEN add_error(NewReport,
                   [kind |-> "missing_columns",
                    count |-> Cardinality(RequiredCols \ df.columns)])
    ELSE
      LET rows == df.rows
          r1 == IF c.validate_ohlc THEN CheckRelations(NewReport, rows) ELSE NewReport
          r2 == IF c.validate_nan THEN CheckNaN(r1, rows) ELSE r1
          r3 == IF c.validate_volume THEN CheckVolume(r2, rows) ELSE r2
          r4 == IF c.validate_duplicates THEN CheckDuplicates(r3, rows) ELSE r3
          r5 == IF c.validate_freshness THEN CheckFreshness(r4, rows, wall, c) ELSE r4
      IN AddStats(r5, rows)

----------------------------------------------------------------------------
(* _calculate_backoff_delay, lines 155-183.  jitter is the value drawn by  *)
(* random.uniform(0, 1) when jitter is enabled, in whole seconds.          *)

Pow2(n) == IF n <= 0 THEN 1 ELSE 2 ^ n

Min(a, b) == IF a <= b THEN a ELSE b

\* a backoff that is never capped
calculate_backoff_delay_uncapped(attempt, is_rate_limit, jitter, c) ==
    LET delay == IF is_rate_limit
                 THEN c.rate_limit_backoff * Pow2(attempt - 1)
                 ELSE c.retry_delay * Pow2(attempt - 1)
    IN IF c.jitter_enabled THEN delay + jitter ELSE delay

calculate_backoff_delay(attempt, is_rate_limit, jitter, c) ==
    LET base_delay == IF is_rate_limit
                      THEN c.rate_limit_backoff * Pow2(attempt - 1)
                      ELSE c.retry_delay * Pow2(attempt - 1)
        max_delay  == IF is_rate_limit THEN c.rate_limit_max_backoff
                      ELSE c.retry_max_delay
        delay      == Min(base_delay, max_delay)
    IN IF c.jitter_enabled THEN delay + jitter ELSE delay

\* the values random.uniform(0, 1) can return, to the clock's resolution
Jitters(c) == IF c.jitter_enabled THEN {0, 1} ELSE {0}

----------------------------------------------------------------------------
(* The validity cache, lines 46-66, 185-201 and 296-321.                   *)

CacheStatisticsInit == [hits |-> 0, misses |-> 0, invalidations |-> 0, evictions |-> 0]

\* DataFrame.copy(): an equal frame that is a new object.  A frame carries
\* its identity in oid; no object outlives the variable it was made for, so
\* a new object is named after the variable that will hold it: "cache" for
\* CacheEntry.data, the caller's name for a frame made inside its call.
copy(df, holder) == [df EXCEPT !.oid = holder]

\* an entry that keeps the very frame it is given
CacheEntryNoCopy(df, metadata, t) ==
    [present |-> TRUE, data |-> df, metadata |-> metadata, creation_time |-> t,
     hit_count |-> 0, validation_passed |-> FALSE]

\* an entry whose hit counter carries over
CacheEntryOneHit(df, metadata, t) ==
    [present |-> TRUE, data |-> copy(df, "cache"), metadata |-> metadata,
     creation_time |-> t, hit_count |-> 1, validation_passed |-> FALSE]

\* CacheEntry.__init__: a copy of the frame, validation_passed False until set
CacheEntry(df, metadata, t) ==
    [present |-> TRUE, data |-> copy(df, "cache"), metadata |-> metadata,
     creation_time |-> t, hit_count |-> 0, validation_passed |-> FALSE]

\* self.cache is None
NoCache == [present |-> FALSE]

HasCache(e) == e.present

\* validity with the boundary age == TTL counted as fresh
is_cache_valid_inclusive(e, st, t, c) ==
    IF ~HasCache(e)
    THEN [ret |-> FALSE, stats |-> st]
    ELSE LET is_valid == (t - e.creation_time) <= c.cache_ttl IN
         [ret   |-> is_valid,
          stats |-> IF ~is_valid
                    THEN [st EXCEPT !.invalidations = @ + 1] ELSE st]

\* validity without the test of line 192
is_cache_valid_unguarded(e, st, t, c) ==
    IF ~HasCache(e)
    THEN [ret |-> TRUE, stats |-> st]
    ELSE LET is_valid == (t - e.creation_time) < c.cache_ttl IN
         [ret   |-> is_valid,
          stats |-> IF ~is_valid
                    THEN [st EXCEPT !.invalidations = @ + 1] ELSE st]

\* validity that counts the first invalidation only
is_cache_valid_counts_once(e, st, t, c) ==
    IF ~HasCache(e)
    THEN [ret |-> FALSE, stats |-> st]
    ELSE LET is_valid == (t - e.creation_time) < c.cache_ttl IN
         [ret   |-> is_valid,
          stats |-> IF ~is_valid /\ st.invalidations = 0
                    THEN [st EXCEPT !.invalidations = @ + 1] ELSE st]

\* _is_cache_valid: the result and the statistics it leaves
is_cache_valid(e, st, t, c) ==
    IF ~HasCache(e)
    THEN [ret |-> FALSE, stats |-> st]
    ELSE LET is_valid == (t - e.creation_time) < c.cache_ttl IN
         [ret   |-> is_valid,
          stats |-> IF ~is_valid
                    THEN [st EXCEPT !.invalidations = @ + 1] ELSE st]

\* a disabled cache that counts nothing
should_use_cache_quiet(e, st, t, c) ==
    IF ~c.cache_enabled
    THEN [ret |-> FALSE, stats |-> st, cache |-> e]
    ELSE LET v == is_cache_valid(e, st, t, c) IN
         IF ~v.ret
         THEN [ret |-> FALSE, stats |-> [v.stats EXCEPT !.misses = @ + 1], cache |-> e]
         ELSE IF c.cache_validation /\ HasCache(e) /\ ~e.validation_passed
         THEN [ret |-> FALSE, stats |-> [v.stats EXCEPT !.misses = @ + 1], cache |-> e]
         ELSE [ret   |-> TRUE,
               stats |-> [v.stats EXCEPT !.hits = @ + 1],
               cache |-> IF HasCache(e) THEN [e EXCEPT !.hit_count = @ + 1] ELSE e]

\* a lookup that passes over an entry that failed validation without
\* counting the miss
should_use_cache_uncounted(e, st, t, c) ==
    IF ~c.cache_enabled
    THEN [ret |-> FALSE, stats |-> [st EXCEPT !.misses = @ + 1], cache |-> e]
    ELSE LET v == is_cache_valid(e, st, t, c) IN
         IF ~v.ret
         THEN [ret |-> FALSE, stats |-> [v.stats EXCEPT !.misses = @ + 1], cache |-> e]
         ELSE IF c.cache_validation /\ HasCache(e) /\ ~e.validation_passed
         THEN [ret |-> FALSE, stats |-> v.stats, cache |-> e]
         ELSE [ret   |-> TRUE,
               stats |-> [v.stats EXCEPT !.hits = @ + 1],
               cache |-> IF HasCache(e) THEN [e EXCEPT !.hit_count = @ + 1] ELSE e]

\* a hit that renews the entry's creation time
should_use_cache_refresh(e, st, t, c) ==
    IF ~c.cache_enabled
    THEN [ret |-> FALSE, stats |-> [st EXCEPT !.misses = @ + 1], cache |-> e]
    ELSE LET v == is_cache_valid(e, st, t, c) IN
         IF ~v.ret
         THEN [ret |-> FALSE, stats |-> [v.stats EXCEPT !.misses = @ + 1], cache |-> e]
         ELSE IF c.cache_validation /\ HasCache(e) /\ ~e.validation_passed
         THEN [ret |-> FALSE, stats |-> [v.stats EXCEPT !.misses = @ + 1], cache |-> e]
         ELSE [ret   |-> TRUE,
               stats |-> [v.stats EXCEPT !.hits = @ + 1],
               cache |-> IF HasCache(e)
                         THEN [e EXCEPT !.hit_count = @ + 1, !.creation_time = t]
                         ELSE e]

\* a hit that starts the count of misses afresh
should_use_cache_forgetful(e, st, t, c) ==
    IF ~c.cache_enabled
    THEN [ret |-> FALSE, stats |-> [st EXCEPT !.misses = @ + 1], cache |-> e]
    ELSE LET v == is_cache_valid(e, st, t, c) IN
         IF ~v.ret
         THEN [ret |-> FALSE, stats |-> [v.stats EXCEPT !.misses = @ + 1], cache |-> e]
         ELSE IF c.cache_validation /\ HasCache(e) /\ ~e.validation_passed
         THEN [ret |-> FALSE, stats |-> [v.stats EXCEPT !.misses = @ + 1], cache |-> e]
         ELSE [ret   |-> TRUE,
               stats |-> [v.stats EXCEPT !.hits = @ + 1, !.misses = 0],
               cache |-> IF HasCache(e) THEN [e EXCEPT !.hit_count = @ + 1] ELSE e]

\* _should_use_cache: the result, the statistics and the entry it leaves
should_use_cache(e, st, t, c) ==
    IF ~c.cache_enabled
    THEN [ret |-> FALSE, stats |-> [st EXCEPT !.misses = @ + 1], cache |-> e]
    ELSE LET v == is_cache_valid(e, st, t, c) IN
         IF ~v.ret
         THEN [ret |-> FALSE, stats |-> [v.stats EXCEPT !.misses = @ + 1], cache |-> e]
         ELSE IF c.cache_validation /\ HasCache(e) /\ ~e.validation_passed
         THEN [ret |-> FALSE, stats |-> [v.stats EXCEPT !.misses = @ + 1], cache |-> e]
         ELSE [ret   |-> TRUE,
               stats |-> [v.stats EXCEPT !.hits = @ + 1],
               cache |-> IF HasCache(e) THEN [e EXCEPT !.hit_count = @ + 1] ELSE e]

----------------------------------------------------------------------------
(* What the provider (yf.Ticker(...).history) can do on one call: raise,   *)
(* with a message that does or does not match "429"/"rate" (line 442), or  *)
(* return a raw frame: the name of its index, its columns and its rows.    *)

Bar(ts, o, h, l, c, v) ==
    [timestamp |-> ts, open |-> o, high |-> h, low |-> l, close |-> c, volume |-> v]

OHLCV == {"open", "high", "low", "close", "volume"}

\* two valid bars, delivered newest first
GoodRaw == [index |-> "datetime", columns |-> OHLCV,
            rows |-> <<Bar(2, 11, 12, 10, 11, 5), Bar(1, 10, 11, 9, 10, 7)>>]

\* a bar with high < low and a repeated timestamp
BadRaw == [index |-> "date", columns |-> OHLCV,
           rows |-> <<Bar(1, 11, 10, 12, 11, 5), Bar(1, 10, 11, 9, 10, 7)>>]

EmptyRaw == [index |-> "datetime", columns |-> OHLCV, rows |-> <<>>]

\* no 'datetime' and no 'date' column after reset_index
MalformedRaw == [index |-> "index", columns |-> OHLCV,
                 rows |-> <<Bar(1, 10, 11, 9, 10, 7)>>]

\* df[required_cols] raises KeyError
MissingColsRaw == [index |-> "datetime", columns |-> OHLCV \ {"volume"},
                   rows |-> <<Bar(1, 10, 11, 9, 10, 7)>>]

RawFrames == {GoodRaw, BadRaw, EmptyRaw, MalformedRaw, MissingColsRaw}

Outcomes ==
    {[kind |-> "frame", raw |-> f, rate |-> FALSE] : f \in RawFrames}
    \cup {[kind |-> "raise", raw |-> EmptyRaw, rate |-> r] : r \in BOOLEAN}

\* datetime.utcnow() at validation, in the unit of the bars' timestamps
WallTimes == {3, 9}

Requests == {<<"1d", "1m">>, <<"5d", "5m">>}

----------------------------------------------------------------------------
(* Normalisation, lines 389-407.  sort_values uses quicksort, which is not *)
(* stable: rows with equal timestamps come out in either order.            *)

IsSortedByTimestamp(rows) ==
    \A i \in 1..(Len(rows) - 1) : rows[i].timestamp <= rows[i + 1].timestamp

RowOrders(rows) ==
    {[i \in 1..Len(rows) |-> rows[p[i]]] :
        p \in {q \in [1..Len(rows) -> 1..Len(rows)] :
                  \A i, j \in 1..Len(rows) : i # j => q[i] # q[j]}}

SortValues(rows) == {r \in RowOrders(rows) : IsSortedByTimestamp(r)}

HasTimestampColumn(raw) == raw.index \in {"datetime", "date"}

\* the frames `df[required_cols].copy().sort_values('timestamp')` can be
Normalised(raw) ==
    {[oid |-> "df", columns |-> RequiredCols, rows |-> r]
        : r \in SortValues(raw.rows)}

\* the frame as the local variable df of caller c's call
Local(df, c) == [df EXCEPT !.oid = c]

----------------------------------------------------------------------------
(* Configuration.  The module `config` that the fetcher imports is not     *)
(* part of the sources, so every option is an input fixed at start-up.     *)

BaseConfig ==
    [retry_attempts         |-> 2,
     retry_delay            |-> 1,
     retry_max_delay        |-> 2,
     jitter_enabled         |-> FALSE,
     rate_limit_backoff     |-> 2,
     rate_limit_max_backoff |-> 3,
     cache_ttl              |-> 2,
     cache_enabled          |-> TRUE,
     cache_validation       |-> TRUE,
     validate_ohlc          |-> TRUE,
     validate_freshness     |-> TRUE,
     validate_duplicates    |-> TRUE,
     validate_nan           |-> TRUE,
     validate_volume        |-> TRUE,
     freshness_max_age      |-> 5,
     freshness_min_age      |-> 0,
     cb_enabled             |-> TRUE,
     cb_threshold           |-> 2,
     cb_reset_interval      |-> 2]

----------------------------------------------------------------------------
(* Callers of fetch_ohlc.  A caller is idle, or inside the retry loop      *)
(* about to call the provider ("call"), or in time.sleep ("sleep").  Of    *)
(* the arguments use_cache is last read at line 354; the request and       *)
(* validate go into the retry loop, where validate is read at line 411.    *)

Callers == {"a", "b"}

NoneDF == [oid |-> "None", columns |-> {}, rows |-> <<>>]

\* the pair fetch_ohlc returns; `via` names the return statement taken
Return(present, df, report, via) ==
    [present |-> present, df |-> df, report |-> report, via |-> via]

NoReturn == Return(FALSE, NoneDF, NewReport, "none")

\* a failure whose report names its cause
AbsentWithCause(via) == Return(FALSE, NoneDF, add_error(NewReport, via), via)

\* `return None, DataValidationReport()`, lines 345, 351, 387, 402, 462
Absent(via) == Return(FALSE, NoneDF, NewReport, via)

\* no provider call was made in the step just taken
NoAnswer == [kind |-> "none", raw |-> EmptyRaw, rate |-> FALSE]

IdleThread ==
    [pc |-> "idle", request |-> <<"", "">>,
     validate |-> TRUE,
     attempt |-> 0, is_rate_limited |-> FALSE, delay |-> 0,
     calls |-> 0, answer |-> NoAnswer, ret |-> NoReturn]

\* back to the caller: the locals die; the result, the number of provider
\* calls made and the provider's last answer stay for the caller to see
Returned(t, r) ==
    [IdleThread EXCEPT !.ret = r, !.calls = t.calls, !.answer = t.answer]

\* an exception leaves fetch_ohlc instead of a pair
Raised(exc) == Return(FALSE, NoneDF, NewReport, exc)

----------------------------------------------------------------------------
(* fetch_ohlc, lines 323-462.                                               *)

\* the gate of lines 342-345 left out
BreakerGateOff == [ret |-> TRUE, cb |-> cb]

\* lines 342-345: the breaker gate; can_attempt may reset the breaker
BreakerGate ==
    IF cfg.cb_enabled
    THEN can_attempt(cb, now, cfg.cb_reset_interval)
    ELSE [ret |-> TRUE, cb |-> cb]

\* the window of line 348 never seen
RateLimitNever == FALSE

\* line 348
RateLimitActive == rate_limit_until > now

\* a cache that serves an entry only to the request it was stored for
CacheLookupKeyed(request, use_cache) ==
    IF use_cache /\ HasCache(cache) /\ cache.metadata # request
    THEN [ret |-> FALSE, stats |-> [stats EXCEPT !.misses = @ + 1], cache |-> cache]
    ELSE IF use_cache
    THEN should_use_cache(cache, stats, now, cfg)
    ELSE [ret |-> FALSE, stats |-> stats, cache |-> cache]

\* lines 353-354: `use_cache and self._should_use_cache()`; the period and
\* interval asked for take no part, and on a hit the caller is left with
\* the request it made beside the result
CacheLookup(request, use_cache) ==
    IF use_cache
    THEN should_use_cache(cache, stats, now, cfg)
    ELSE [ret |-> FALSE, stats |-> stats, cache |-> cache]

\* a fetch that consults the cache before the rate-limit window
FetchCallCacheFirst(c, request, use_cache, validate) ==
    /\ th[c].pc = "idle"
    /\ UNCHANGED <<now, cfg, rate_limit_until, obs>>
    /\ LET g  == BreakerGate
           t0 == [IdleThread EXCEPT !.request = request, !.validate = validate]
       IN
       /\ cb' = g.cb
       /\ IF ~g.ret
          THEN /\ th' = [th EXCEPT ![c] = Returned(t0, Absent("breaker"))]
               /\ UNCHANGED <<cache, stats>>
          ELSE LET su == CacheLookup(request, use_cache) IN
               /\ stats' = su.stats
               /\ cache' = su.cache
               /\ IF su.ret /\ ~HasCache(su.cache)
                  THEN th' = [th EXCEPT ![c] = Returned(t0, Raised("AttributeError"))]
                  ELSE IF su.ret
                  THEN th' = [th EXCEPT ![c] =
                                 [Returned(t0, Return(TRUE, copy(su.cache.data, c),
                                      [NewReport EXCEPT
                                          !.is_valid = su.cache.validation_passed],
                                      "cache"))
                                  EXCEPT !.request = request]]
                  ELSE IF RateLimitActive
                  THEN th' = [th EXCEPT ![c] = Returned(t0, Absent("rate_limit"))]
                  ELSE IF cfg.retry_attempts < 1
                  THEN th' = [th EXCEPT ![c] = Returned(t0, Absent("exhausted"))]
                  ELSE th' = [th EXCEPT ![c] = [t0 EXCEPT !.pc = "call", !.attempt = 1]]

\* lines 342-362: the gates, the cache, and entry into the retry loop
FetchCall(c, request, use_cache, validate) ==
    /\ th[c].pc = "idle"
    /\ UNCHANGED <<now, cfg, rate_limit_until, obs>>
    /\ LET g  == BreakerGate
           t0 == [IdleThread EXCEPT !.request = request, !.validate = validate]
       IN
       /\ cb' = g.cb
       /\ IF ~g.ret
          THEN /\ th' = [th EXCEPT ![c] = Returned(t0, Absent("breaker"))]
               /\ UNCHANGED <<cache, stats>>
          ELSE IF RateLimitActive
          THEN /\ th' = [th EXCEPT ![c] = Returned(t0, Absent("rate_limit"))]
               /\ UNCHANGED <<cache, stats>>
          ELSE LET su == CacheLookup(request, use_cache) IN
               /\ stats' = su.stats
               /\ cache' = su.cache
               /\ IF su.ret /\ ~HasCache(su.cache)
                  THEN \* line 355: None has no attribute 'data'
                       th' = [th EXCEPT ![c] = Returned(t0, Raised("AttributeError"))]
                  ELSE IF su.ret
                  THEN th' = [th EXCEPT ![c] =
                                 [Returned(t0, Return(TRUE, copy(su.cache.data, c),
                                      [NewReport EXCEPT
                                          !.is_valid = su.cache.validation_passed],
                                      "cache"))
                                  EXCEPT !.request = request]]
                  ELSE IF cfg.retry_attempts < 1
                  THEN th' = [th EXCEPT ![c] = Returned(t0, Absent("exhausted"))]
                  ELSE th' = [th EXCEPT ![c] = [t0 EXCEPT !.pc = "call", !.attempt = 1]]

\* lines 385-387, 400-402, 459-462: record the failure and return (None, report)
FailAndReturn(c, t, via) ==
    /\ cb' = IF cfg.cb_enabled THEN record_failure(cb, now, cfg.cb_threshold) ELSE cb
    /\ th' = [th EXCEPT ![c] = Returned(t, Absent(via))]

\* lines 380-383, 446-449: compute the delay and go to sleep
Backoff(c, t, is_rate_limit, jitter) ==
    th' = [th EXCEPT ![c] =
              [t EXCEPT !.pc = "sleep",
                        !.delay = calculate_backoff_delay(t.attempt, is_rate_limit,
                                                          jitter, cfg)]]

\* the window computed with the regular retry delay
RegularBackoff(attempt, jitter) ==
    calculate_backoff_delay(attempt, FALSE, jitter, cfg)

\* line 453: the length of the rate-limit window
RateLimitBackoff(attempt, jitter) ==
    calculate_backoff_delay(attempt, TRUE, jitter, cfg)

\* an except clause that drops the cache entry when the attempts run out
OnExceptionDropping(c, t, rate) ==
    LET is_rate_limited == t.is_rate_limited \/ rate
        t1 == [t EXCEPT !.is_rate_limited = is_rate_limited]
    IN
    \E jitter \in Jitters(cfg) :
        IF t.attempt < cfg.retry_attempts
        THEN /\ Backoff(c, t1, is_rate_limited, jitter)
             /\ UNCHANGED <<cb, cache, rate_limit_until>>
        ELSE /\ rate_limit_until' =
                    IF is_rate_limited
                    THEN now + RateLimitBackoff(t.attempt, jitter)
                    ELSE rate_limit_until
             /\ FailAndReturn(c, t1, "exhausted")
             /\ cache' = NoCache

\* lines 436-460: the except clause; rate says whether str(e) matches line 442
OnException(c, t, rate) ==
    LET is_rate_limited == t.is_rate_limited \/ rate
        t1 == [t EXCEPT !.is_rate_limited = is_rate_limited]
    IN
    \E jitter \in Jitters(cfg) :
        IF t.attempt < cfg.retry_attempts
        THEN /\ Backoff(c, t1, is_rate_limited, jitter)
             /\ UNCHANGED <<cb, cache, rate_limit_until>>
        ELSE /\ rate_limit_until' =
                    IF is_rate_limited
                    THEN now + RateLimitBackoff(t.attempt, jitter)
                    ELSE rate_limit_until
             /\ FailAndReturn(c, t1, "exhausted")
             /\ UNCHANGED cache

\* an empty response that counts against the breaker on every attempt
OnEmptyEachAttempt(c, t) ==
    IF t.attempt < cfg.retry_attempts
    THEN /\ \E jitter \in Jitters(cfg) : Backoff(c, t, FALSE, jitter)
         /\ cb' = IF cfg.cb_enabled THEN record_failure(cb, now, cfg.cb_threshold) ELSE cb
         /\ UNCHANGED <<cache, rate_limit_until>>
    ELSE /\ FailAndReturn(c, t, "empty")
         /\ UNCHANGED <<cache, rate_limit_until>>

\* lines 376-387: an empty response
OnEmpty(c, t) ==
    IF t.attempt < cfg.retry_attempts
    THEN /\ \E jitter \in Jitters(cfg) : Backoff(c, t, FALSE, jitter)
         /\ UNCHANGED <<cb, cache, rate_limit_until>>
    ELSE /\ FailAndReturn(c, t, "empty")
         /\ UNCHANGED <<cache, rate_limit_until>>

\* a malformed response that is retried like an empty one
OnMalformedRetried(c, t) ==
    IF t.attempt < cfg.retry_attempts
    THEN /\ \E jitter \in Jitters(cfg) : Backoff(c, t, FALSE, jitter)
         /\ UNCHANGED <<cb, cache, rate_limit_until>>
    ELSE /\ FailAndReturn(c, t, "malformed")
         /\ UNCHANGED <<cache, rate_limit_until>>

\* lines 393-402: no 'datetime' and no 'date' column
OnMalformed(c, t) ==
    /\ FailAndReturn(c, t, "malformed")
    /\ UNCHANGED <<cache, rate_limit_until>>

\* a fetch that treats a failed validation as a failed fetch
OnDataStrict(c, t, df) ==
    \E wall \in WallTimes :
        LET report == validate_ohlc_data(df, wall, cfg) IN
        IF report.is_valid
        THEN /\ cache' = IF cfg.cache_enabled
                         THEN [CacheEntry(df, t.request, now) EXCEPT
                                   !.validation_passed = report.is_valid]
                         ELSE cache
             /\ cb' = IF cfg.cb_enabled THEN record_success(cb) ELSE cb
             /\ th' = [th EXCEPT ![c] = Returned(t, Return(TRUE, df, report, "success"))]
             /\ UNCHANGED rate_limit_until
        ELSE /\ FailAndReturn(c, t, "exhausted")
             /\ UNCHANGED <<cache, rate_limit_until>>

\* a fetch that validates only when asked to
DataOutcomeIfAsked(t, df, wall) ==
    LET report == IF t.validate THEN validate_ohlc_data(df, wall, cfg) ELSE NewReport IN
    [ret   |-> Return(TRUE, df, report, "success"),
     cache |-> IF cfg.cache_enabled
               THEN [CacheEntry(df, t.request, now) EXCEPT
                         !.validation_passed = report.is_valid]
               ELSE cache,
     cb    |-> IF cfg.cb_enabled THEN record_success(cb) ELSE cb]

\* lines 409-434: what a response that has been prepared leads to, wall
\* being utcnow() at validation: the pair returned, the entry stored and the
\* breaker.  The report is made whatever validate says (line 409); of a
\* failed validation, validate only selects whether it is logged (411-416).
DataOutcome(t, df, wall) ==
    LET report == validate_ohlc_data(df, wall, cfg) IN
    [ret   |-> Return(TRUE, df, report, "success"),
     cache |-> IF cfg.cache_enabled
               THEN [CacheEntry(df, t.request, now) EXCEPT
                         !.validation_passed = report.is_valid]
               ELSE cache,
     cb    |-> IF cfg.cb_enabled THEN record_success(cb) ELSE cb]

\* lines 404-434: validate, store, record the success, return; the caller
\* is left with the validate it asked for beside the result
OnData(c, t, df) ==
    \E wall \in WallTimes :
        LET r == DataOutcome(t, df, wall) IN
        /\ cache' = r.cache
        /\ cb' = r.cb
        /\ th' = [th EXCEPT ![c] = [Returned(t, r.ret) EXCEPT !.validate = t.validate]]
        /\ UNCHANGED rate_limit_until

\* lines 364-460: one pass of the retry loop, the provider answering o
ProviderReturns(c, o) ==
    /\ th[c].pc = "call"
    /\ UNCHANGED <<now, cfg, stats, obs>>
    /\ LET t == [th[c] EXCEPT !.calls = @ + 1, !.answer = o] IN
       IF o.kind = "raise"
       THEN OnException(c, t, o.rate)
       ELSE IF IsEmptyFrame(o.raw)
       THEN OnEmpty(c, t)
       ELSE IF ~HasTimestampColumn(o.raw)
       THEN OnMalformed(c, t)
       ELSE IF ~(OHLCV \subseteq o.raw.columns)
       THEN OnException(c, t, FALSE)
       ELSE \E df \in Normalised(o.raw) : OnData(c, t, Local(df, c))

ProviderCall(c) == \E o \in Outcomes : ProviderReturns(c, o)

\* d seconds pass: a stored instant x is now d seconds further in the past
Max(a, b) == IF a >= b THEN a ELSE b

Past(x, d, keep) == IF x = None THEN None ELSE Max(x - d, now - keep)

Elapse(d) ==
    /\ cb' = [cb EXCEPT !.last_failure_time =
                  Past(@, d, cfg.cb_reset_interval + 1)]
    /\ cache' = IF HasCache(cache)
                THEN [cache EXCEPT !.creation_time = Past(@, d, cfg.cache_ttl + 1)]
                ELSE cache
    /\ rate_limit_until' = IF rate_limit_until - d > now
                           THEN rate_limit_until - d ELSE 0
    /\ UNCHANGED now

\* a loop whose attempt number stands still
SleepSameAttempt(c) ==
    /\ th[c].pc = "sleep"
    /\ Elapse(th[c].delay)
    /\ th' = [th EXCEPT ![c] = [@ EXCEPT !.pc = "call", !.delay = 0,
                                         !.answer = NoAnswer]]
    /\ UNCHANGED <<cfg, stats, obs>>

\* time.sleep(delay), then the next pass of the loop
Sleep(c) ==
    /\ th[c].pc = "sleep"
    /\ Elapse(th[c].delay)
    /\ th' = [th EXCEPT ![c] = [@ EXCEPT !.pc = "call", !.attempt = @ + 1,
                                         !.delay = 0, !.answer = NoAnswer]]
    /\ UNCHANGED <<cfg, stats, obs>>

\* th[c].ret and th[c].calls describe the fetch that returned in the step
\* just taken, th[c].answer the provider call made in it; any later step
\* clears them
Forget == [c \in Callers |-> IF th[c].pc = "idle" THEN IdleThread ELSE th[c]]

\* a clear that drops the entry and keeps the counters
clear_cache_keep_counters ==
    /\ cache' = NoCache
    /\ UNCHANGED <<now, cfg, cb, stats, rate_limit_until>>

\* clear_cache, lines 520-524
clear_cache ==
    /\ cache' = NoCache
    /\ stats' = CacheStatisticsInit
    /\ UNCHANGED <<now, cfg, cb, rate_limit_until>>

ClearCache ==
    /\ clear_cache
    /\ th' = Forget
    /\ UNCHANGED obs

\* one second passes, and a sweeper drops the entry once it has expired
TickSweeping ==
    /\ cb' = [cb EXCEPT !.last_failure_time = Past(@, 1, cfg.cb_reset_interval + 1)]
    /\ cache' = IF HasCache(cache)
                THEN IF now - Past(cache.creation_time, 1, cfg.cache_ttl + 1)
                            >= cfg.cache_ttl
                     THEN NoCache
                     ELSE [cache EXCEPT !.creation_time = Past(@, 1, cfg.cache_ttl + 1)]
                ELSE cache
    /\ rate_limit_until' = IF rate_limit_until - 1 > now
                           THEN rate_limit_until - 1 ELSE 0
    /\ th' = Forget
    /\ UNCHANGED <<now, cfg, stats, obs>>

\* one second passes
Tick ==
    /\ Elapse(1)
    /\ th' = Forget
    /\ UNCHANGED <<cfg, stats, obs>>

----------------------------------------------------------------------------
(* The Acquirer driven by its single owner (spec section 5).                *)

Owner == "a"

\* obs: the last call made directly on the breaker (op), what it returned
\* (ret), the breaker it found (pre) and the seconds since the last failure
\* it saw (elapsed); whether can_attempt has granted a probe since the last
\* record_* call (probe) and how many can_attempt calls have returned True
\* from that probe on (trues), or False in a row (falses); for a record_*
\* call, whether it followed a probe (after_probe)
NoObs == [op |-> "none", ret |-> FALSE, pre |-> CircuitBreakerInit, elapsed |-> None,
          probe |-> FALSE, trues |-> 0, falses |-> 0, after_probe |-> FALSE]

\* the configurations explored: the base one, and each option varied in turn
Configs ==
    {[BaseConfig EXCEPT !.cb_threshold = k] : k \in 1..MaxThreshold}
    \cup {[BaseConfig EXCEPT !.retry_attempts = n] : n \in 1..MaxAttempts}
    \cup {[BaseConfig EXCEPT !.cache_enabled = FALSE],
          [BaseConfig EXCEPT !.cache_validation = FALSE],
          [BaseConfig EXCEPT !.jitter_enabled = TRUE],
          [BaseConfig EXCEPT !.cb_enabled = FALSE]}

\* __init__, lines 139-153
Init ==
    /\ cfg \in Configs
    /\ now = Max(cfg.cache_ttl, cfg.cb_reset_interval) + 2
    /\ cb = CircuitBreakerInit
    /\ cache = NoCache
    /\ stats = CacheStatisticsInit
    /\ rate_limit_until = 0
    /\ th = [c \in Callers |-> IdleThread]
    /\ obs = NoObs

\* the cache lookups made so far
Lookups == stats.hits + stats.misses

Fetch ==
    \E request \in Requests, use_cache \in BOOLEAN, validate \in BOOLEAN :
        /\ use_cache => Lookups < MaxLookups
        /\ FetchCall(Owner, request, use_cache, validate)

Next ==
    \/ Fetch
    \/ ProviderCall(Owner)
    \/ Sleep(Owner)
    \/ (th[Owner].pc = "idle" /\ ClearCache)
    \/ Tick

Spec == Init /\ [][Next]_vars

----------------------------------------------------------------------------
(* The CircuitBreaker on its own, driven through its three public methods  *)
(* in any order, for every threshold and reset interval in range.          *)

ConfigsCB ==
    {[BaseConfig EXCEPT !.cb_threshold = k, !.cb_reset_interval = r]
        : k \in 1..MaxThreshold, r \in 1..MaxReset}

InitCB ==
    /\ cfg \in ConfigsCB
    /\ now = Max(cfg.cache_ttl, cfg.cb_reset_interval) + 2
    /\ cb = CircuitBreakerInit
    /\ cache = NoCache
    /\ stats = CacheStatisticsInit
    /\ rate_limit_until = 0
    /\ th = [c \in Callers |-> IdleThread]
    /\ obs = NoObs

Elapsed(b) == IF b.last_failure_time = None THEN None ELSE now - b.last_failure_time

CB_RecordFailure ==
    /\ cb.failure_count < MaxFailures
    /\ cb' = record_failure(cb, now, cfg.cb_threshold)
    /\ obs' = [op |-> "record_failure", ret |-> FALSE, pre |-> cb,
               elapsed |-> Elapsed(cb), probe |-> FALSE, trues |-> 0,
               falses |-> 0, after_probe |-> obs.probe]
    /\ UNCHANGED <<now, cfg, cache, stats, rate_limit_until, th>>

CB_RecordSuccess ==
    /\ cb' = record_success(cb)
    /\ obs' = [op |-> "record_success", ret |-> FALSE, pre |-> cb,
               elapsed |-> Elapsed(cb), probe |-> FALSE, trues |-> 0,
               falses |-> 0, after_probe |-> obs.probe]
    /\ UNCHANGED <<now, cfg, cache, stats, rate_limit_until, th>>

CB_CanAttempt ==
    /\ obs.trues < MaxProbes
    /\ obs.falses < MaxProbes
    /\ LET r == can_attempt(cb, now, cfg.cb_reset_interval)
           probe == obs.probe \/ (cb.is_open /\ r.ret)
       IN
       /\ cb' = r.cb
       /\ obs' = [op |-> "can_attempt", ret |-> r.ret, pre |-> cb,
                  elapsed |-> Elapsed(cb), probe |-> probe,
                  trues |-> IF probe /\ r.ret THEN obs.trues + 1 ELSE obs.trues,
                  falses |-> IF r.ret THEN 0 ELSE obs.falses + 1,
                  after_probe |-> FALSE]
    /\ UNCHANGED <<now, cfg, cache, stats, rate_limit_until, th>>

NextCB ==
    \/ CB_RecordFailure
    \/ CB_RecordSuccess
    \/ CB_CanAttempt
    \/ Tick

SpecCB == InitCB /\ [][NextCB]_vars

----------------------------------------------------------------------------
(* C1: once failure_count has reached the threshold, a can_attempt() call  *)
(* made less than reset_interval after the last failure returns False and  *)
(* leaves the breaker open with its count, so every further such call      *)
(* returns False too, for every threshold from 1 up.                       *)

C1_BlockedWhileOpen ==
    (/\ obs.op = "can_attempt"
     /\ obs.pre.failure_count >= cfg.cb_threshold
     /\ obs.elapsed < cfg.cb_reset_interval)
    => (/\ obs.ret = FALSE
        /\ cb.is_open
        /\ cb.failure_count = obs.pre.failure_count)

\* two blocked calls in a row on a breaker that its threshold-th failure opened
C1_Witness ==
    /\ obs.op = "can_attempt"
    /\ obs.pre.failure_count = cfg.cb_threshold
    /\ cfg.cb_threshold = MaxThreshold
    /\ obs.elapsed < cfg.cb_reset_interval
    /\ obs.ret = FALSE
    /\ obs.falses >= 2

----------------------------------------------------------------------------
(* C2, as the spec states it: after the reset interval has elapsed on an   *)
(* open breaker, exactly one can_attempt() call returns True.              *)

C2_ExactlyOneTrue == obs.trues <= 1

(* C2, amended: after the reset interval has elapsed on an open breaker,   *)
(* the next can_attempt() call returns True and itself leaves              *)
(* failure_count = 0 and is_open = False, so the calls that follow it      *)
(* return True as well; a following record_success() leaves                *)
(* failure_count = 0 and is_open = False.                                  *)

C2_ProbeResets ==
    /\ (/\ obs.op = "can_attempt"
        /\ obs.pre.is_open
        /\ obs.elapsed >= cfg.cb_reset_interval)
       => (obs.ret /\ cb.failure_count = 0 /\ ~cb.is_open)
    /\ (obs.op = "can_attempt" /\ obs.probe) => obs.ret
    /\ obs.op = "record_success" => (cb.failure_count = 0 /\ ~cb.is_open)

\* record_success() called after a probe was granted
C2_Witness ==
    /\ obs.op = "record_success"
    /\ obs.after_probe
    /\ cb.failure_count = 0
    /\ ~cb.is_open

----------------------------------------------------------------------------
(* C3: with threshold = 3, a fetch_ohlc call that finds three failed       *)
(* fetches recorded in a row, made less than reset_interval after the      *)
(* last of them, is refused by can_attempt(): it returns (None, empty      *)
(* report) at the breaker gate and makes no provider call.                 *)

C3_FourthCallGated ==
    [][(/\ cfg.cb_enabled
        /\ cfg.cb_threshold = 3
        /\ cb.failure_count = 3
        /\ Elapsed(cb) < cfg.cb_reset_interval
        /\ Fetch)
       => (/\ th'[Owner].pc = "idle"
           /\ th'[Owner].ret = Absent("breaker")
           /\ th'[Owner].calls = 0
           /\ cb' = cb)]_vars

\* the fourth call has just been refused
C3_Witness ==
    /\ cfg.cb_threshold = 3
    /\ cb.failure_count = 3
    /\ cb.is_open
    /\ th[Owner].ret = Absent("breaker")
    /\ th[Owner].calls = 0

----------------------------------------------------------------------------
(* C4: a fetch_ohlc call that finds can_attempt() False, or                *)
(* rate_limit_until still in the future, returns (None, empty report)      *)
(* without a provider call and without touching the cache or its           *)
(* statistics, whatever use_cache is and whatever the cache holds; the     *)
(* breaker is asked before the rate-limit window.                          *)

C4_GatesShortCircuit ==
    [][LET refused == cfg.cb_enabled
                      /\ ~can_attempt(cb, now, cfg.cb_reset_interval).ret
       IN ((refused \/ rate_limit_until > now) /\ Fetch)
          => (/\ th'[Owner].pc = "idle"
              /\ th'[Owner].ret =
                     Absent(IF refused THEN "breaker" ELSE "rate_limit")
              /\ th'[Owner].calls = 0
              /\ cache' = cache
              /\ stats' = stats)]_vars

\* a call stopped by the rate-limit window while the cache holds a fresh,
\* validated entry
C4_Witness ==
    /\ th[Owner].ret = Absent("rate_limit")
    /\ rate_limit_until > now
    /\ cfg.cache_enabled
    /\ HasCache(cache)
    /\ now - cache.creation_time < cfg.cache_ttl
    /\ cache.validation_passed

----------------------------------------------------------------------------
(* C5: when the provider call of the last attempt raises an error that     *)
(* matches the rate-limit test, rate_limit_until becomes now +             *)
(* _calculate_backoff_delay(attempt, True); from then until that instant   *)
(* the window only shrinks with the clock, and every fetch_ohlc call       *)
(* returns (None, report) without a provider call.                         *)

C5_RateLimitWindow ==
    [][/\ (/\ th[Owner].pc = "call"
           /\ th[Owner].attempt = cfg.retry_attempts
           /\ th'[Owner].answer = [kind |-> "raise", raw |-> EmptyRaw,
                                   rate |-> TRUE])
          => (/\ th'[Owner].pc = "idle"
              /\ rate_limit_until' - now \in
                     {calculate_backoff_delay(th[Owner].attempt, TRUE, j, cfg)
                          : j \in Jitters(cfg)})
       /\ (rate_limit_until > now)
          => rate_limit_until' \in
                 {rate_limit_until,
                  IF rate_limit_until - 1 > now THEN rate_limit_until - 1 ELSE 0}
       /\ (rate_limit_until > now /\ Fetch)
          => (/\ th'[Owner].pc = "idle"
              /\ ~th'[Owner].ret.present
              /\ th'[Owner].calls = 0)]_vars

\* a call stopped inside the window that a rate-limited last attempt opened
C5_Witness ==
    /\ th[Owner].ret = Absent("rate_limit")
    /\ rate_limit_until > now
    /\ cfg.retry_attempts = MaxAttempts

----------------------------------------------------------------------------
(* C6: _should_use_cache returns True, adds one to hits and one to the     *)
(* entry's hit_count exactly when caching is enabled and an entry exists   *)
(* whose age is below the TTL and which passed validation or need not      *)
(* have; otherwise it returns False and adds exactly one to misses, also   *)
(* when caching is disabled.  fetch_ohlc leaves what it computed.          *)

C6_Hit ==
    /\ cfg.cache_enabled
    /\ HasCache(cache)
    /\ now - cache.creation_time < cfg.cache_ttl
    /\ (~cfg.cache_validation \/ cache.validation_passed)

C6_HitIff ==
    /\ [](LET su == should_use_cache(cache, stats, now, cfg) IN
          /\ su.ret <=> C6_Hit
          /\ su.ret =>
                /\ su.stats = [stats EXCEPT !.hits = @ + 1]
                /\ su.cache = [cache EXCEPT !.hit_count = @ + 1]
          /\ ~su.ret =>
                /\ su.stats.misses = stats.misses + 1
                /\ su.stats.hits = stats.hits
                /\ su.cache = cache)
    /\ [][(Fetch /\ stats' # stats)
          => LET su == should_use_cache(cache, stats, now, cfg) IN
             /\ stats' = su.stats
             /\ cache' = su.cache
             /\ su.ret <=> (th'[Owner].ret.via = "cache")]_vars

\* a hit on an entry that failed validation, served because
\* YFINANCE_CACHE_VALIDATION is off
C6_Witness ==
    /\ th[Owner].ret.via = "cache"
    /\ stats.hits = 1
    /\ cache.hit_count = 1
    /\ ~cache.validation_passed

----------------------------------------------------------------------------
(* The cache with YFINANCE_CACHE_TTL = 50 and a provider that answers      *)
(* every call with bars: entries are stored, age second by second, and     *)
(* are read at every age.                                                  *)

TTL50 == 50

ConfigTTL == [BaseConfig EXCEPT !.cache_ttl = TTL50]

InitTTL ==
    /\ cfg = ConfigTTL
    /\ now = Max(cfg.cache_ttl, cfg.cb_reset_interval) + 2
    /\ cb = CircuitBreakerInit
    /\ cache = NoCache
    /\ stats = CacheStatisticsInit
    /\ rate_limit_until = 0
    /\ th = [c \in Callers |-> IdleThread]
    /\ obs = NoObs

FetchTTL ==
    \E request \in Requests, use_cache \in BOOLEAN, validate \in BOOLEAN :
        /\ use_cache => Lookups < MaxReads
        /\ FetchCall(Owner, request, use_cache, validate)

ProviderAnswersTTL ==
    \E raw \in {GoodRaw, BadRaw} :
        ProviderReturns(Owner, [kind |-> "frame", raw |-> raw, rate |-> FALSE])

NextTTL ==
    \/ FetchTTL
    \/ ProviderAnswersTTL
    \/ Tick

SpecTTL == InitTTL /\ [][NextTTL]_vars

(* C7: with a TTL of 50 s, a cached read of a validated entry 40 s after   *)
(* it was stored is a hit and adds one to hits (making it 1 on the first   *)
(* read); a read 51 s after is a miss and adds one to invalidations; a     *)
(* read at any age from exactly the TTL on is a miss, below it a hit.      *)

C7_TTLBoundary ==
    [][(/\ FetchTTL
        /\ stats' # stats
        /\ HasCache(cache)
        /\ cache.validation_passed)
       => LET age  == now - cache.creation_time
              hit  == /\ th'[Owner].ret.via = "cache"
                      /\ th'[Owner].ret.present
                      /\ stats'.hits = stats.hits + 1
                      /\ stats'.misses = stats.misses
                      /\ stats'.invalidations = stats.invalidations
              miss == /\ th'[Owner].pc = "call"
                      /\ stats'.hits = stats.hits
                      /\ stats'.misses = stats.misses + 1
                      /\ stats'.invalidations >= stats.invalidations + 1
          IN /\ cfg.cache_ttl = 50
             /\ age = 40 => (hit /\ (Lookups = 0 => stats'.hits = 1))
             /\ age = 51 => miss
             /\ age = cfg.cache_ttl => miss
             /\ IF age < cfg.cache_ttl THEN hit ELSE miss]_vars

\* an entry read once while fresh, and again 51 s after it was stored
C7_Witness ==
    /\ th[Owner].pc = "call"
    /\ HasCache(cache)
    /\ cache.validation_passed
    /\ cache.hit_count = 1
    /\ now - cache.creation_time = 51
    /\ stats = [hits |-> 1, misses |-> 1, invalidations |-> 1, evictions |-> 0]

----------------------------------------------------------------------------
(* C8: fetch_ohlc never lets an exception out: whatever the state and      *)
(* whatever the provider does, a call ends by returning a pair, with a     *)
(* frame exactly on the cache and success returns.                         *)

C8_NoEscape ==
    /\ th[Owner].ret.via \in {"none", "breaker", "rate_limit", "cache",
                              "empty", "malformed", "exhausted", "success"}
    /\ th[Owner].ret.present <=> th[Owner].ret.via \in {"cache", "success"}
    /\ ~th[Owner].ret.present => th[Owner].ret.report = NewReport

\* a fetch that saw an error, slept, and then got a frame without a
\* timestamp column
C8_Witness ==
    /\ th[Owner].ret = Absent("malformed")
    /\ th[Owner].answer.raw = MalformedRaw
    /\ th[Owner].calls = MaxAttempts

----------------------------------------------------------------------------
(* C9: a fetch_ohlc call inside the retry loop can always take its next    *)
(* step, every step brings it closer to its return, and it makes at most   *)
(* YFINANCE_RETRY_ATTEMPTS provider calls, the k-th in attempt k; it       *)
(* sleeps and retries only while attempts remain.                          *)

C9_Measure(t) ==
    IF t.pc = "idle" THEN 0
    ELSE 2 * (cfg.retry_attempts - t.attempt) + (IF t.pc = "call" THEN 2 ELSE 1)

C9_BoundedRetries ==
    [][/\ th[Owner].calls <= cfg.retry_attempts
       /\ th[Owner].pc # "idle"
          => /\ th[Owner].attempt \in 1..cfg.retry_attempts
             /\ th[Owner].calls =
                    th[Owner].attempt - (IF th[Owner].pc = "call" THEN 1 ELSE 0)
             /\ ENABLED (ProviderCall(Owner) \/ Sleep(Owner))
       /\ th[Owner].pc = "sleep" => th[Owner].attempt < cfg.retry_attempts
       /\ (th[Owner].pc # "idle" /\ th'[Owner] # th[Owner])
          => C9_Measure(th'[Owner]) < C9_Measure(th[Owner])
       /\ (th[Owner].pc = "call" /\ th'[Owner] # th[Owner])
          => th'[Owner].calls = th[Owner].attempt]_vars

\* a fetch that used its whole budget
C9_Witness ==
    /\ th[Owner].ret = Absent("exhausted")
    /\ th[Owner].calls = MaxAttempts
    /\ cfg.retry_attempts = MaxAttempts

----------------------------------------------------------------------------
(* C10: a provider frame that is not empty and has a timestamp and the     *)
(* five OHLCV columns is returned at once with every one of its rows and   *)
(* the validator's report, also when that report is invalid; the breaker   *)
(* records a success and no further attempt is made.                       *)

C10_InvalidStillReturned ==
    LET t == th[Owner] IN
    (/\ t.answer.kind = "frame"
     /\ t.answer.raw.rows # <<>>
     /\ HasTimestampColumn(t.answer.raw)
     /\ OHLCV \subseteq t.answer.raw.columns)
    => (/\ t.pc = "idle"
        /\ t.ret.via = "success"
        /\ t.ret.present
        /\ t.ret.df.rows \in RowOrders(t.answer.raw.rows)
        /\ t.ret.report \in
               {validate_ohlc_data(t.ret.df, w, cfg) : w \in WallTimes}
        /\ cfg.cb_enabled => (cb.failure_count = 0 /\ ~cb.is_open))

\* both rows of a frame that fails validation come back, after a retry
C10_Witness ==
    /\ th[Owner].ret.via = "success"
    /\ th[Owner].answer.raw = BadRaw
    /\ ~th[Owner].ret.report.is_valid
    /\ th[Owner].ret.report.errors # <<>>
    /\ Len(th[Owner].ret.df.rows) = Len(BadRaw.rows)
    /\ th[Owner].calls >= 2
    /\ cb.failure_count = 0
    /\ ~cb.is_open

----------------------------------------------------------------------------
(* C11, as the spec states it, in what it says of the state a successful   *)
(* fetch leaves: the cache holds an entry with the bars just returned, a   *)
(* fresh creation_time, hit_count = 0 and validation_passed equal to the   *)
(* report's is_valid, and the breaker is closed with failure_count = 0.    *)

C11_AlwaysStored ==
    th[Owner].ret.via = "success"
    => (/\ HasCache(cache)
        /\ cache.data.rows = th[Owner].ret.df.rows
        /\ cache.creation_time = now
        /\ cache.hit_count = 0
        /\ cache.validation_passed = th[Owner].ret.report.is_valid
        /\ cb.failure_count = 0
        /\ ~cb.is_open)

(* C11, amended: a successful fetch made with YFINANCE_CACHE_ENABLED       *)
(* replaces the cache entry wholesale by a new one holding a copy of the   *)
(* bars returned, the request's (period, interval), creation_time = now,   *)
(* hit_count = 0 and validation_passed = report.is_valid; made without it, *)
(* it leaves the cache as it was.  With the breaker enabled it leaves      *)
(* failure_count = 0 and is_open = False.                                  *)

C11_StoredWhenEnabled ==
    [][(th[Owner].pc = "call" /\ th'[Owner].ret.via = "success")
       => (/\ cfg.cache_enabled =>
                 cache' = [present           |-> TRUE,
                           data              |-> [th'[Owner].ret.df EXCEPT
                                                     !.oid = "cache"],
                           metadata          |-> th[Owner].request,
                           creation_time     |-> now,
                           hit_count         |-> 0,
                           validation_passed |-> th'[Owner].ret.report.is_valid]
           /\ ~cfg.cache_enabled => cache' = cache
           /\ cfg.cb_enabled =>
                 cb' = [cb EXCEPT !.failure_count = 0, !.is_open = FALSE])]_vars

\* an entry that had been hit is replaced by the result of a retried fetch
C11_Witness ==
    /\ th[Owner].ret.via = "success"
    /\ th[Owner].calls >= 2
    /\ stats.hits = 1
    /\ HasCache(cache)
    /\ cache.hit_count = 0
    /\ cache.creation_time = now
    /\ cache.data.rows = th[Owner].ret.df.rows

----------------------------------------------------------------------------
(* Callers that write into the frames they are handed.  The provider       *)
(* answers every call with bars and no time passes, so a caller keeps its  *)
(* frame until its next call.                                              *)

\* the caller overwrites a cell of the frame fetch_ohlc returned to it, in
\* place: whoever holds that object sees the new value
Scribbled(df) == [df EXCEPT !.rows[1].close = NaN]

Mutate(c) ==
    /\ th[c].pc = "idle"
    /\ th[c].ret.present
    /\ th[c].ret.df.rows[1].close # NaN
    /\ th' = [th EXCEPT ![c].ret.df = Scribbled(@)]
    /\ cache' = IF HasCache(cache) /\ cache.data.oid = th[c].ret.df.oid
                THEN [cache EXCEPT !.data = Scribbled(@)]
                ELSE cache
    /\ obs' = [NoObs EXCEPT !.op = "mutate"]
    /\ UNCHANGED <<now, cfg, cb, stats, rate_limit_until>>

InitAlias ==
    /\ cfg = BaseConfig
    /\ now = Max(cfg.cache_ttl, cfg.cb_reset_interval) + 2
    /\ cb = CircuitBreakerInit
    /\ cache = NoCache
    /\ stats = CacheStatisticsInit
    /\ rate_limit_until = 0
    /\ th = [c \in Callers |-> IdleThread]
    /\ obs = NoObs

NextAlias ==
    \/ FetchTTL
    \/ ProviderAnswersTTL
    \/ Mutate(Owner)
    \/ (th[Owner].pc = "idle" /\ ClearCache)

SpecAlias == InitAlias /\ [][NextAlias]_vars

(* C12: the frame a caller holds is never the object the cache entry       *)
(* holds, so a caller writing into the frame of a cache hit, or of the     *)
(* fetch that stored the entry, leaves the entry as it was; the entry's    *)
(* bars change only when a successful fetch stores a new entry, and every  *)
(* cache hit returns a new frame equal to the entry's.                     *)

C12_NoAliasing ==
    /\ [](\A c \in Callers :
            (th[c].ret.present /\ HasCache(cache))
            => th[c].ret.df.oid # cache.data.oid)
    /\ [][/\ Mutate(Owner) => cache' = cache
          /\ (HasCache(cache) /\ HasCache(cache') /\ cache'.data # cache.data)
             => (th[Owner].pc = "call" /\ th'[Owner].ret.via = "success")
          /\ (FetchTTL /\ th'[Owner].ret.via = "cache")
             => (/\ th'[Owner].ret.df.rows = cache.data.rows
                 /\ th'[Owner].ret.df.columns = cache.data.columns)]_vars

\* the second hit on an entry, after the caller wrote into a frame it held:
\* the bars returned are the entry's, without the caller's value
C12_Witness ==
    /\ obs.op = "mutate"
    /\ th[Owner].ret.via = "cache"
    /\ cache.hit_count = 2
    /\ th[Owner].ret.df.rows = cache.data.rows
    /\ \A i \in 1..Len(cache.data.rows) : cache.data.rows[i].close # NaN

----------------------------------------------------------------------------
(* _validate_ohlc_data on its own: it is handed every frame of up to       *)
(* MaxRows bars drawn from ValBars, at every wall-clock reading in         *)
(* ValWalls, with all checks enabled, each one disabled in turn, and all   *)
(* disabled, one call per behaviour.  th[Owner].ret keeps the frame and    *)
(* the report of the call, obs.wall the reading of datetime.utcnow() it    *)
(* made.                                                                   *)

\* <<open, high, low, close, volume>>: a sound bar, the bar that breaks all
\* five relations, one bar per single broken relation, and bars with a NaN,
\* an infinite value and a negative volume
ValPrices ==
    {<<10, 11, 9, 10, 7>>,
     <<11, 10, 12, 11, 5>>,
     <<12, 11, 9, 10, 7>>,
     <<10, 11, 9, 12, 7>>,
     <<8, 11, 9, 10, 7>>,
     <<10, 11, 9, 8, 7>>,
     <<10, 11, 9, NaN, 7>>,
     <<10, PosInf, 9, 10, 7>>,
     <<10, 11, 9, 10, 0 - 1>>}

ValBars == {Bar(ts, p[1], p[2], p[3], p[4], p[5]) : ts \in {1, 2}, p \in ValPrices}

RECURSIVE SeqsUpTo(_, _)
SeqsUpTo(S, n) ==
    IF n = 0 THEN {<<>>}
    ELSE LET shorter == SeqsUpTo(S, n - 1) IN
         shorter \cup {Append(q, x) : q \in {r \in shorter : Len(r) = n - 1}, x \in S}

\* frames of MaxRows + 1 sound bars, for timestamps that occur three times
LongFrames ==
    {[oid |-> "df", columns |-> RequiredCols,
      rows |-> [i \in 1..(MaxRows + 1) |-> Bar(ts[i], 10, 11, 9, 10, 7)]]
        : ts \in [1..(MaxRows + 1) -> {1, 2}]}

\* frames with every required column, and frames that lack some
ValFrames ==
    {[oid |-> "df", columns |-> RequiredCols, rows |-> r] : r \in SeqsUpTo(ValBars, MaxRows)}
    \cup LongFrames
    \cup {[oid |-> "df", columns |-> cols, rows |-> <<Bar(1, 11, 10, 12, 11, 5)>>]
             : cols \in {RequiredCols \ {"volume"}, RequiredCols \ {"timestamp", "open"}, {}}}

\* readings of the wall clock: with the latest bar at 2 they give the ages
\* -2, 0 (= min age), 5 (= max age) and 7
ValWalls == {0, 2, 7, 9}

ConfigsVal ==
    {BaseConfig,
     [BaseConfig EXCEPT !.validate_ohlc = FALSE],
     [BaseConfig EXCEPT !.validate_nan = FALSE],
     [BaseConfig EXCEPT !.validate_volume = FALSE],
     [BaseConfig EXCEPT !.validate_duplicates = FALSE],
     [BaseConfig EXCEPT !.validate_freshness = FALSE],
     [BaseConfig EXCEPT !.validate_ohlc = FALSE, !.validate_nan = FALSE,
                        !.validate_volume = FALSE, !.validate_duplicates = FALSE,
                        !.validate_freshness = FALSE]}

InitVal ==
    /\ cfg \in ConfigsVal
    /\ now = Max(cfg.cache_ttl, cfg.cb_reset_interval) + 2
    /\ cb = CircuitBreakerInit
    /\ cache = NoCache
    /\ stats = CacheStatisticsInit
    /\ rate_limit_until = 0
    /\ th = [c \in Callers |-> IdleThread]
    /\ obs = NoObs

Validate ==
    \E df \in ValFrames, wall \in ValWalls :
        /\ obs.op # "validate"
        /\ th' = [th EXCEPT ![Owner].ret =
                     Return(TRUE, df, validate_ohlc_data(df, wall, cfg), "validate")]
        /\ obs' = [op |-> "validate", wall |-> wall]
        /\ UNCHANGED <<now, cfg, cb, cache, stats, rate_limit_until>>

NextVal == Validate

SpecVal == InitVal /\ [][NextVal]_vars

\* the frame last validated, its report, and whether the checks ran on it
Validated == obs.op = "validate"

VDf == th[Owner].ret.df

VReport == th[Owner].ret.report

Structural == VDf.rows = <<>> \/ VDf.columns = {} \/ RequiredCols \ VDf.columns # {}

\* the error lines of kind k, and the count the only one carries
Lines(r, k) == {i \in 1..Len(r.errors) : r.errors[i].kind = k}

LineCount(r, k) == r.errors[CHOOSE i \in Lines(r, k) : TRUE].count

----------------------------------------------------------------------------
(* C13: where the relational check runs (it is enabled and the frame is    *)
(* not empty and has the required columns), the report has, for each of    *)
(* high<low, high<open, high<close, low>open, low>close, exactly one       *)
(* error line carrying the number of bars that break the relation when     *)
(* that number is not zero and no line when it is zero, and is_valid is    *)
(* False when any is broken; the single bar {open 11, high 10, low 12,     *)
(* close 11} gives exactly one "high<low" line, with count 1, and          *)
(* is_valid False.                                                         *)

C13_Broken(k) ==
    Cardinality({i \in 1..Len(VDf.rows) :
        LET b == VDf.rows[i]
            known(x, y) == x # NaN /\ y # NaN
        IN CASE k = "high<low"   -> known(b.high, b.low) /\ b.high < b.low
             [] k = "high<open"  -> known(b.high, b.open) /\ b.high < b.open
             [] k = "high<close" -> known(b.high, b.close) /\ b.high < b.close
             [] k = "low>open"   -> known(b.low, b.open) /\ b.low > b.open
             [] k = "low>close"  -> known(b.low, b.close) /\ b.low > b.close})

C13_Relations == {"high<low", "high<open", "high<close", "low>open", "low>close"}

C13_OneLinePerRelation ==
    (Validated /\ ~Structural /\ cfg.validate_ohlc)
    => /\ \A k \in C13_Relations :
            IF C13_Broken(k) > 0
            THEN /\ Cardinality(Lines(VReport, k)) = 1
                 /\ LineCount(VReport, k) = C13_Broken(k)
                 /\ ~VReport.is_valid
            ELSE Lines(VReport, k) = {}
       /\ VDf.rows = <<Bar(1, 11, 10, 12, 11, 5)>>
          => (/\ Cardinality(Lines(VReport, "high<low")) = 1
              /\ LineCount(VReport, "high<low") = 1
              /\ ~VReport.is_valid)

\* two bars, both with low > close and one of them with high < low too:
\* a "low>close" line with count 2 beside a "high<low" line with count 1
C13_Witness ==
    /\ Validated /\ ~Structural /\ cfg.validate_ohlc
    /\ Len(VDf.rows) = 2
    /\ C13_Broken("high<low") = 1
    /\ C13_Broken("low>close") = 2
    /\ LineCount(VReport, "low>close") = 2
    /\ LineCount(VReport, "high<low") = 1
    /\ Cardinality(Lines(VReport, "high<low")) = 1

----------------------------------------------------------------------------
(* C14: where the duplicate check runs (it is enabled and the frame is not *)
(* empty and has the required columns), the count it reports is the number *)
(* of rows minus the number of distinct timestamps, i.e. the occurrences   *)
(* beyond the first of each timestamp; the report has exactly one          *)
(* "duplicate_timestamps" error line, carrying that count, and is_valid    *)
(* False, when the count is not zero, and no such line when it is zero.    *)

C14_Distinct == {VDf.rows[i].timestamp : i \in 1..Len(VDf.rows)}

C14_Beyond == Len(VDf.rows) - Cardinality(C14_Distinct)

C14_DuplicateCount ==
    (Validated /\ ~Structural /\ cfg.validate_duplicates)
    => IF C14_Beyond > 0
       THEN /\ Cardinality(Lines(VReport, "duplicate_timestamps")) = 1
            /\ LineCount(VReport, "duplicate_timestamps") = C14_Beyond
            /\ ~VReport.is_valid
       ELSE Lines(VReport, "duplicate_timestamps") = {}

\* MaxRows + 1 bars with one timestamp: MaxRows occurrences beyond the first, and
\* nothing else wrong with the frame
C14_Witness ==
    /\ Validated /\ ~Structural /\ cfg.validate_duplicates
    /\ Len(VDf.rows) = MaxRows + 1
    /\ Cardinality(C14_Distinct) = 1
    /\ Len(VReport.errors) = 1
    /\ LineCount(VReport, "duplicate_timestamps") = MaxRows

----------------------------------------------------------------------------
(* C15: for a frame that is not empty and has the required columns, the    *)
(* kinds of error line in the report are exactly the defects of the frame  *)
(* that an enabled check looks for (a broken relation, a NaN, an infinite  *)
(* price, a negative volume, a repeated timestamp, an age below the        *)
(* minimum), whatever the other checks found; a disabled check adds no     *)
(* line; the "stale" warning is there iff the freshness check is enabled   *)
(* and the age is above the maximum; and for every report is_valid is True *)
(* iff it has no error line, whatever its warnings.                        *)

C15_Values(f) == {VDf.rows[i][f] : i \in 1..Len(VDf.rows)}

C15_Latest == CHOOSE t \in C15_Values("timestamp") : \A u \in C15_Values("timestamp") : u <= t

C15_Age == obs.wall - C15_Latest

C15_Expected ==
    (IF cfg.validate_ohlc THEN {k \in C13_Relations : C13_Broken(k) > 0} ELSE {})
    \cup (IF cfg.validate_nan
             /\ \E f \in {"open", "high", "low", "close", "volume"} : NaN \in C15_Values(f)
          THEN {"nan"} ELSE {})
    \cup (IF cfg.validate_nan
             /\ \E f \in {"open", "high", "low", "close"} :
                    C15_Values(f) \cap {PosInf, NegInf} # {}
          THEN {"inf"} ELSE {})
    \cup (IF cfg.validate_volume /\ \E v \in C15_Values("volume") : v # NaN /\ v < 0
          THEN {"negative_volume"} ELSE {})
    \cup (IF cfg.validate_duplicates /\ C14_Beyond > 0
          THEN {"duplicate_timestamps"} ELSE {})
    \cup (IF cfg.validate_freshness /\ C15_Age < cfg.freshness_min_age
          THEN {"future"} ELSE {})

C15_Kinds(lines) == {lines[i].kind : i \in 1..Len(lines)}

C15_ChecksIndependent ==
    Validated
    => /\ VReport.is_valid <=> VReport.errors = <<>>
       /\ ~Structural
          => /\ C15_Kinds(VReport.errors) = C15_Expected
             /\ Len(VReport.errors) = Cardinality(C15_Expected)
             /\ C15_Kinds(VReport.warnings) =
                    IF cfg.validate_freshness /\ C15_Age > cfg.freshness_max_age
                    THEN {"stale"} ELSE {}

\* one report with the findings of four checks: broken relations, a
\* negative volume, a repeated timestamp and a bar dated after the clock
C15_Witness ==
    /\ Validated /\ ~Structural
    /\ {"high<low", "negative_volume", "duplicate_timestamps", "future"}
          \subseteq C15_Kinds(VReport.errors)
    /\ ~VReport.is_valid

----------------------------------------------------------------------------
(* C16: the report of a frame that is not empty and has the required       *)
(* columns has the statistics row_count (the number of rows), price_range  *)
(* (the least and greatest open and close, NaN skipped) and volume_total   *)
(* (the sum of the volumes, NaN skipped), whether or not is_valid is       *)
(* True; the report of an empty frame or of a frame that lacks a required  *)
(* column has no statistics.                                               *)

C16_Least(f) ==
    LET S == C15_Values(f) \ {NaN} IN
    IF S = {} THEN NaN ELSE CHOOSE m \in S : \A x \in S : m <= x

C16_Greatest(f) ==
    LET S == C15_Values(f) \ {NaN} IN
    IF S = {} THEN NaN ELSE CHOOSE m \in S : \A x \in S : m >= x

RECURSIVE C16_Total(_)
C16_Total(n) ==
    IF n = 0 THEN 0
    ELSE C16_Total(n - 1) + (IF VDf.rows[n].volume = NaN THEN 0 ELSE VDf.rows[n].volume)

C16_Stats ==
    <<[key |-> "row_count", val |-> <<Len(VDf.rows)>>],
      [key |-> "price_range", val |-> <<C16_Least("open"), C16_Greatest("open"),
                                        C16_Least("close"), C16_Greatest("close")>>],
      [key |-> "volume_total", val |-> <<C16_Total(Len(VDf.rows))>>]>>

\* the statement without its condition: every report has the statistics
C16_EveryReportHasStats == Validated => VReport.stats = C16_Stats

C16_StatsWhenChecked ==
    Validated => VReport.stats = IF Structural THEN <<>> ELSE C16_Stats

\* an invalid report, of two different bars one of which breaks the
\* relations, that carries the statistics of both
C16_Witness ==
    /\ Validated /\ ~Structural /\ ~VReport.is_valid
    /\ Len(VDf.rows) = 2
    /\ C16_Least("open") < C16_Greatest("open")
    /\ VReport.stats = C16_Stats

----------------------------------------------------------------------------
(* C17: the report of a frame that is empty or lacks a required column has *)
(* exactly one error line, the structural one ("empty" for an empty frame, *)
(* else "missing_columns" with the number of columns missing), is_valid    *)
(* False, and nothing from a later check: no other error and no warning.   *)

C17_ShortCircuit ==
    (Validated /\ Structural)
    => /\ ~VReport.is_valid
       /\ VReport.warnings = <<>>
       /\ Len(VReport.errors) = 1
       /\ VReport.errors[1] =
            IF VDf.rows = <<>> \/ VDf.columns = {}
            THEN [kind |-> "empty", count |-> 0]
            ELSE [kind |-> "missing_columns",
                  count |-> Cardinality(RequiredCols \ VDf.columns)]

\* a frame without the volume column whose only bar breaks the relations
\* and is dated after the clock, with both of those checks enabled: the
\* report has the structural line alone
C17_Witness ==
    /\ Validated
    /\ VDf.columns = RequiredCols \ {"volume"}
    /\ cfg.validate_ohlc /\ cfg.validate_freshness
    /\ \E i \in 1..Len(VDf.rows) :
          /\ VDf.rows[i].high < VDf.rows[i].low
          /\ VDf.rows[i].timestamp > obs.wall
    /\ VReport.errors = <<[kind |-> "missing_columns", count |-> 1]>>

----------------------------------------------------------------------------
(* C18: where the freshness check runs (it is enabled and the frame is not *)
(* empty and has the required columns), with age the reading of the wall   *)
(* clock minus the latest timestamp: an age above the maximum adds one     *)
(* "stale" warning and no error, so that is_valid stays True when no check *)
(* found an error; an age below the minimum adds one "future" error and    *)
(* is_valid is False; an age from the minimum to the maximum, both         *)
(* included, adds neither.                                                 *)

C18_Freshness ==
    (Validated /\ ~Structural /\ cfg.validate_freshness)
    => /\ VReport.warnings =
            IF C15_Age > cfg.freshness_max_age
            THEN <<[kind |-> "stale", age |-> C15_Age]>> ELSE <<>>
       /\ IF C15_Age < cfg.freshness_min_age
          THEN /\ Cardinality(Lines(VReport, "future")) = 1
               /\ LineCount(VReport, "future") = C15_Age
               /\ ~VReport.is_valid
          ELSE Lines(VReport, "future") = {}
       /\ Lines(VReport, "stale") = {}
       /\ (C15_Expected \ {"future"} = {} /\ C15_Age >= cfg.freshness_min_age)
          => VReport.is_valid

\* stale data with nothing else wrong: the warning, and is_valid True
C18_Witness ==
    /\ Validated /\ ~Structural /\ cfg.validate_freshness
    /\ C15_Age > cfg.freshness_max_age
    /\ Len(VReport.warnings) = 1
    /\ VReport.errors = <<>>
    /\ VReport.is_valid

----------------------------------------------------------------------------
(* _calculate_backoff_delay on its own: the delays of attempts 1, 2, ...   *)
(* in turn, regular or rate-limited, under base delays 1..3 and maximum    *)
(* delays 1..MaxBackoff, with jitter off and on.  th[Owner] keeps the      *)
(* attempt, the kind and the delay returned.                               *)

ConfigsBackoff ==
    {[BaseConfig EXCEPT !.retry_delay = b, !.retry_max_delay = m,
                        !.rate_limit_backoff = rb, !.rate_limit_max_backoff = rm,
                        !.jitter_enabled = j]
        : b \in 1..3, m \in 1..MaxBackoff, rb \in {2, 3}, rm \in {3, MaxBackoff},
          j \in BOOLEAN}

InitBackoff ==
    /\ cfg \in ConfigsBackoff
    /\ now = Max(cfg.cache_ttl, cfg.cb_reset_interval) + 2
    /\ cb = CircuitBreakerInit
    /\ cache = NoCache
    /\ stats = CacheStatisticsInit
    /\ rate_limit_until = 0
    /\ th = [c \in Callers |-> IdleThread]
    /\ obs = NoObs

BackoffCall ==
    \E is_rate_limit \in BOOLEAN, jitter \in Jitters(cfg) :
        LET attempt == th[Owner].attempt + 1 IN
        /\ attempt <= MaxAttempts + 1
        /\ obs.op = "backoff" => is_rate_limit = th[Owner].is_rate_limited
        /\ th' = [th EXCEPT ![Owner].attempt = attempt,
                            ![Owner].is_rate_limited = is_rate_limit,
                            ![Owner].delay =
                                calculate_backoff_delay(attempt, is_rate_limit, jitter, cfg)]
        /\ obs' = [NoObs EXCEPT !.op = "backoff"]
        /\ UNCHANGED <<now, cfg, cb, cache, stats, rate_limit_until>>

NextBackoff == BackoffCall

SpecBackoff == InitBackoff /\ [][NextBackoff]_vars

----------------------------------------------------------------------------
(* C19: with jitter off, the delay of attempt a >= 1 is the smaller of     *)
(* base * 2^(a-1) and max, where base and max are the retry delay and the  *)
(* maximum retry delay for a regular retry and the rate-limit backoff and  *)
(* its maximum for a rate-limited one; it equals max once base * 2^(a-1)   *)
(* reaches max; from one attempt to the next it never decreases; and with  *)
(* base 2 and max 8 the delays of attempts 1, 2, 3 are 2, 4, 8.            *)

C19_Base == IF th[Owner].is_rate_limited THEN cfg.rate_limit_backoff ELSE cfg.retry_delay

C19_Cap == IF th[Owner].is_rate_limited THEN cfg.rate_limit_max_backoff
           ELSE cfg.retry_max_delay

RECURSIVE C19_Doubled(_, _)
C19_Doubled(x, n) == IF n = 0 THEN x ELSE C19_Doubled(x + x, n - 1)

C19_Law ==
    (obs.op = "backoff" /\ ~cfg.jitter_enabled)
    => LET a   == th[Owner].attempt
           raw == C19_Doubled(C19_Base, a - 1)
           d   == th[Owner].delay
       IN /\ a >= 1
          /\ d = IF raw <= C19_Cap THEN raw ELSE C19_Cap
          /\ raw >= C19_Cap => d = C19_Cap
          /\ (~th[Owner].is_rate_limited /\ cfg.retry_delay = 2 /\ cfg.retry_max_delay = 8)
             => /\ a = 1 => d = 2
                /\ a = 2 => d = 4
                /\ a = 3 => d = 8

C19_Step ==
    (obs.op = "backoff" /\ obs'.op = "backoff" /\ ~cfg.jitter_enabled
        /\ th'[Owner].attempt = th[Owner].attempt + 1)
    => th'[Owner].delay >= th[Owner].delay

----------------------------------------------------------------------------
(* clear_cache among the fetches of one owner: as Spec, with each clear    *)
(* noted in obs: op is "clear" once the cache has been cleared, and ret    *)
(* tells whether the latest clear found an entry to drop.                  *)

ConfigsClear ==
    {BaseConfig,
     [BaseConfig EXCEPT !.cb_threshold = 1],
     [BaseConfig EXCEPT !.cache_enabled = FALSE]}

InitClear ==
    /\ cfg \in ConfigsClear
    /\ now = Max(cfg.cache_ttl, cfg.cb_reset_interval) + 2
    /\ cb = CircuitBreakerInit
    /\ cache = NoCache
    /\ stats = CacheStatisticsInit
    /\ rate_limit_until = 0
    /\ th = [c \in Callers |-> IdleThread]
    /\ obs = NoObs

ClearNoted ==
    /\ th[Owner].pc = "idle"
    /\ clear_cache
    /\ th' = Forget
    /\ obs' = [NoObs EXCEPT !.op = "clear", !.ret = HasCache(cache)]

NextClear ==
    \/ Fetch
    \/ ProviderCall(Owner)
    \/ Sleep(Owner)
    \/ ClearNoted
    \/ Tick

SpecClear == InitClear /\ [][NextClear]_vars

----------------------------------------------------------------------------
(* C20: a clear_cache step leaves no cache entry and the four counters at  *)
(* zero, and leaves the breaker, rate_limit_until, the configuration and   *)
(* the clock as they were; and when the cache has been cleared and holds   *)
(* no entry and the counters are zero, a fetch with use_cache = True that  *)
(* passes the breaker and rate-limit gates counts one miss and no hit and  *)
(* goes on to call the provider.                                           *)

C20_FetchUsingCache ==
    \E request \in Requests, validate \in BOOLEAN :
        FetchCall(Owner, request, TRUE, validate)

C20_Step ==
    /\ ClearNoted
       => /\ cache' = NoCache
          /\ stats' = [hits |-> 0, misses |-> 0, invalidations |-> 0, evictions |-> 0]
          /\ cb' = cb
          /\ rate_limit_until' = rate_limit_until
          /\ cfg' = cfg /\ now' = now
    /\ (/\ obs.op = "clear" /\ cache = NoCache /\ stats = CacheStatisticsInit
        /\ C20_FetchUsingCache
        /\ BreakerGate.ret /\ ~RateLimitActive)
       => /\ stats' = [hits |-> 0, misses |-> 1, invalidations |-> 0, evictions |-> 0]
          /\ cache' = NoCache
          /\ th'[Owner].pc = "call"
          /\ th'[Owner].attempt = 1

C20_ClearCache == [][C20_Step]_vars

\* a clear dropped an entry, and the fetch after it counted the only miss
\* and stands before its first provider call, with failures on the breaker
C20_Witness ==
    /\ obs.op = "clear" /\ obs.ret
    /\ cache = NoCache
    /\ stats = [hits |-> 0, misses |-> 1, invalidations |-> 0, evictions |-> 0]
    /\ th[Owner].pc = "call" /\ th[Owner].attempt = 1 /\ th[Owner].calls = 0
    /\ cb.failure_count > 0

----------------------------------------------------------------------------
(* The statistics over the owner's calls: fetches with and without the     *)
(* cache (get_latest_price and get_current_bar are the fetch of "1d", "1m" *)
(* with the cache and without validation; get_cache_stats only reads),     *)
(* every provider outcome, sleeps, clears and clock ticks, with up to      *)
(* MaxReads cached reads between two clears.                               *)

InitStats ==
    /\ cfg = BaseConfig
    /\ now = Max(cfg.cache_ttl, cfg.cb_reset_interval) + 2
    /\ cb = CircuitBreakerInit
    /\ cache = NoCache
    /\ stats = CacheStatisticsInit
    /\ rate_limit_until = 0
    /\ th = [c \in Callers |-> IdleThread]
    /\ obs = NoObs

NextStats ==
    \/ FetchTTL
    \/ ProviderCall(Owner)
    \/ Sleep(Owner)
    \/ ClearNoted
    \/ Tick

SpecStats == InitStats /\ [][NextStats]_vars

----------------------------------------------------------------------------
(* C21: no step of fetch (nor of get_latest_price and get_current_bar,     *)
(* which are fetches), of the provider, of a sleep or of the clock makes   *)
(* hits, misses, invalidations or evictions smaller; the only step after   *)
(* which a counter is smaller is clear_cache, and it leaves all four at 0. *)

C21_Counters == {"hits", "misses", "invalidations", "evictions"}

C21_Step ==
    /\ (\E k \in C21_Counters : stats'[k] < stats[k])
       => /\ ClearNoted
          /\ \A k \in C21_Counters : stats'[k] = 0
    /\ ~ClearNoted => \A k \in C21_Counters : stats'[k] >= stats[k]

C21_CountersMonotone == [][C21_Step]_vars

\* after a clear, a miss and then a hit have been counted again
C21_Witness ==
    /\ obs.op = "clear" /\ obs.ret
    /\ stats.hits = 1 /\ stats.misses = 1
    /\ th[Owner].ret.via = "cache"

----------------------------------------------------------------------------
(* Two callers on one Acquirer (spec section 5).  obs.op tells how they    *)
(* are run: "serialized", where a caller enters fetch only when no other   *)
(* caller is inside it (the external mutex around the whole call), or      *)
(* "interleaved", where the steps of the two calls mix freely.  The calls  *)
(* bypass the cache; the provider raises, with or without a rate-limit     *)
(* message, or returns bars.                                               *)

ConfigsConc == {BaseConfig, [BaseConfig EXCEPT !.cb_threshold = 1]}

InitConc ==
    /\ cfg \in ConfigsConc
    /\ now = Max(cfg.cache_ttl, cfg.cb_reset_interval) + 2
    /\ cb = CircuitBreakerInit
    /\ cache = NoCache
    /\ stats = CacheStatisticsInit
    /\ rate_limit_until = 0
    /\ th = [c \in Callers |-> IdleThread]
    /\ obs \in {[NoObs EXCEPT !.op = m] : m \in {"serialized", "interleaved"}}

\* the external serialization of whole fetch calls
MayStart(c) ==
    obs.op = "serialized" => \A d \in Callers \ {c} : th[d].pc = "idle"

FetchConc(c) ==
    /\ MayStart(c)
    /\ FetchCall(c, <<"1d", "1m">>, FALSE, FALSE)

ProviderConc(c) ==
    \/ \E rate \in BOOLEAN :
          ProviderReturns(c, [kind |-> "raise", raw |-> EmptyRaw, rate |-> rate])
    \/ ProviderReturns(c, [kind |-> "frame", raw |-> GoodRaw, rate |-> FALSE])

NextConc ==
    \/ \E c \in Callers : FetchConc(c)
    \/ \E c \in Callers : ProviderConc(c)
    \/ \E c \in Callers : Sleep(c)
    \/ Tick

SpecConc == InitConc /\ [][NextConc]_vars

----------------------------------------------------------------------------
(* C22: when whole fetch calls are serialized, no provider call is made    *)
(* while the breaker is open with its reset interval not elapsed, nor      *)
(* while rate_limit_until is in the future; when the steps of two calls    *)
(* interleave, a caller that passed the gates stands at its provider call  *)
(* in such a state.                                                        *)

C22_BreakerBlocks ==
    /\ cfg.cb_enabled /\ cb.is_open
    /\ now - cb.last_failure_time < cfg.cb_reset_interval

C22_Gated == C22_BreakerBlocks \/ rate_limit_until > now

C22_Step ==
    \A c \in Callers :
        (obs.op = "serialized" /\ th'[c].calls = th[c].calls + 1) => ~C22_Gated

C22_SerializedIsSafe ==
    /\ [](obs.op = "serialized" => \A c \in Callers : th[c].pc = "call" => ~C22_Gated)
    /\ [][C22_Step]_vars

\* caller b, past the gates, is about to call the provider although caller
\* a has since opened the breaker and started a rate-limit window
C22_Witness ==
    /\ obs.op = "interleaved"
    /\ th["b"].pc = "call" /\ th["b"].attempt = 1
    /\ th["a"].pc = "idle" /\ th["a"].ret.via = "exhausted"
    /\ C22_BreakerBlocks
    /\ rate_limit_until > now

----------------------------------------------------------------------------
(* The owner's fetches against a provider that answers every call with an  *)
(* empty frame, for retry budgets 1..MaxAttempts, with and without jitter. *)

ConfigsEmpty ==
    {[BaseConfig EXCEPT !.retry_attempts = n, !.jitter_enabled = j,
                        !.cb_threshold = MaxThreshold]
        : n \in 1..MaxAttempts, j \in BOOLEAN}

InitEmpty ==
    /\ cfg \in ConfigsEmpty
    /\ now = Max(cfg.cache_ttl, cfg.cb_reset_interval) + 2
    /\ cb = CircuitBreakerInit
    /\ cache = NoCache
    /\ stats = CacheStatisticsInit
    /\ rate_limit_until = 0
    /\ th = [c \in Callers |-> IdleThread]
    /\ obs = NoObs

ProviderEmpty ==
    ProviderReturns(Owner, [kind |-> "frame", raw |-> EmptyRaw, rate |-> FALSE])

NextEmpty ==
    \/ Fetch
    \/ ProviderEmpty
    \/ Sleep(Owner)
    \/ Tick

SpecEmpty == InitEmpty /\ [][NextEmpty]_vars

----------------------------------------------------------------------------
(* C23: in a fetch whose every provider call returns an empty frame, the   *)
(* k-th call, k < YFINANCE_RETRY_ATTEMPTS, is followed by a sleep of       *)
(* delay(k, False) and changes neither the breaker nor rate_limit_until;   *)
(* the call number YFINANCE_RETRY_ATTEMPTS is followed by no sleep, adds   *)
(* exactly one to failure_count, leaves rate_limit_until as it was and     *)
(* returns (None, empty report); so the fetch makes exactly                *)
(* YFINANCE_RETRY_ATTEMPTS calls and counts one failure.                   *)

C23_RegularDelays(k) ==
    {Min(cfg.retry_delay * 2 ^ (k - 1), cfg.retry_max_delay) + j
        : j \in IF cfg.jitter_enabled THEN {0, 1} ELSE {0}}

C23_Positions ==
    LET t == th[Owner] IN
    /\ t.pc = "call" => t.calls = t.attempt - 1 /\ t.attempt <= cfg.retry_attempts
    /\ t.pc = "sleep" => /\ t.calls = t.attempt
                         /\ t.attempt < cfg.retry_attempts
                         /\ t.delay \in C23_RegularDelays(t.attempt)
    /\ t.ret.via = "empty" => /\ t.calls = cfg.retry_attempts
                              /\ t.ret = [present |-> FALSE, df |-> NoneDF,
                                          report |-> NewReport, via |-> "empty"]
    /\ rate_limit_until = 0

C23_Step ==
    LET t == th[Owner] IN
    /\ t'.calls = t.calls + 1
       => IF t.attempt < cfg.retry_attempts
          THEN /\ t'.pc = "sleep" /\ t'.attempt = t.attempt
               /\ cb' = cb /\ rate_limit_until' = rate_limit_until
          ELSE /\ t'.pc = "idle" /\ t'.ret.via = "empty"
               /\ cb'.failure_count = cb.failure_count + 1
               /\ rate_limit_until' = rate_limit_until
    /\ (t.pc = "sleep" /\ t'.pc # "sleep")
       => /\ t'.pc = "call" /\ t'.attempt = t.attempt + 1 /\ t'.calls = t.calls
          /\ cb'.failure_count = cb.failure_count /\ cb'.is_open = cb.is_open

C23_EmptyResponses == []C23_Positions /\ [][C23_Step]_vars

\* a fetch with a budget of MaxAttempts has returned after that many empty
\* answers, and the breaker has counted its first failure
C23_Witness ==
    /\ cfg.retry_attempts = MaxAttempts
    /\ th[Owner].ret.via = "empty"
    /\ th[Owner].calls = MaxAttempts
    /\ cb.failure_count = 1
    /\ rate_limit_until = 0

----------------------------------------------------------------------------
(* C24: when the provider call of the last attempt raises, rate_limit_until *)
(* becomes now + delay(YFINANCE_RETRY_ATTEMPTS, True) if the error raised  *)
(* by that call matches the rate-limit test and stays as it was if it does *)
(* not; either way the breaker, when enabled, counts exactly one failure   *)
(* and the fetch returns (None, empty report).                             *)

C24_FinalRaise ==
    /\ th[Owner].pc = "call"
    /\ th[Owner].attempt = cfg.retry_attempts
    /\ th'[Owner].calls = th[Owner].calls + 1
    /\ th'[Owner].answer.kind = "raise"

C24_Step ==
    C24_FinalRaise
    => /\ IF th'[Owner].answer.rate
          THEN rate_limit_until' - now \in
                   {calculate_backoff_delay(cfg.retry_attempts, TRUE, j, cfg)
                        : j \in Jitters(cfg)}
          ELSE rate_limit_until' = rate_limit_until
       /\ cfg.cb_enabled => cb'.failure_count = cb.failure_count + 1
       /\ ~cfg.cb_enabled => cb' = cb
       /\ th'[Owner].pc = "idle"
       /\ th'[Owner].ret = Absent("exhausted")

C24_FinalErrorDecides == [][C24_Step]_vars

----------------------------------------------------------------------------
(* C25: the sleep after a failed attempt k that is not the last is         *)
(* delay(k, True) if the error raised by the provider call of attempt k    *)
(* matches the rate-limit test, and delay(k, False) if that call raised    *)
(* any other error or returned an empty frame, whatever happened on the    *)
(* attempts before k.                                                      *)

C25_Retried ==
    /\ th[Owner].pc = "call"
    /\ th'[Owner].calls = th[Owner].calls + 1
    /\ th'[Owner].pc = "sleep"

C25_OwnClass ==
    th'[Owner].answer.kind = "raise" /\ th'[Owner].answer.rate

C25_Step ==
    C25_Retried
    => th'[Owner].delay \in
           {calculate_backoff_delay(th[Owner].attempt, C25_OwnClass, j, cfg)
                : j \in Jitters(cfg)}

C25_OwnFailureClass == [][C25_Step]_vars

----------------------------------------------------------------------------
(* C26: the breaker's failure_count, last_failure_time and is_open are     *)
(* written by record_success and record_failure, and by can_attempt when   *)
(* it finds the breaker open with the reset interval elapsed: it then sets *)
(* failure_count to 0 and is_open to False.  So the entry of a fetch,      *)
(* which makes no provider call, leaves the breaker as it was except for   *)
(* that reset; a provider call leaves it as it was or as record_success or *)
(* record_failure leave it; and a clear, a sleep and the clock change      *)
(* neither failure_count nor is_open.                                      *)

C26_ProviderStep == th'[Owner].calls = th[Owner].calls + 1

C26_Probe ==
    /\ cfg.cb_enabled /\ cb.is_open
    /\ cb.last_failure_time # None /\ cb.last_failure_time # 0
    /\ now - cb.last_failure_time >= cfg.cb_reset_interval

C26_AfterSuccess == [cb EXCEPT !.failure_count = 0, !.is_open = FALSE]

C26_AfterFailure ==
    [failure_count |-> cb.failure_count + 1, last_failure_time |-> now,
     is_open |-> cb.is_open \/ cb.failure_count + 1 >= cfg.cb_threshold]

\* the statement without can_attempt: only a provider call's record_success
\* or record_failure changes failure_count or is_open
C26_OnlyRecords ==
    [][~C26_ProviderStep
       => (cb'.failure_count = cb.failure_count /\ cb'.is_open = cb.is_open)]_vars

C26_Step ==
    /\ Fetch => cb' = IF C26_Probe THEN C26_AfterSuccess ELSE cb
    /\ C26_ProviderStep => cb' \in {cb, C26_AfterSuccess, C26_AfterFailure}
    /\ (~Fetch /\ ~C26_ProviderStep)
       => /\ cb'.failure_count = cb.failure_count
          /\ cb'.is_open = cb.is_open
          /\ (cb'.last_failure_time = None) = (cb.last_failure_time = None)

C26_BreakerWriters == [][C26_Step]_vars

\* a fetch stopped by the rate-limit window, with no provider call, has
\* closed the breaker that the failure which opened the window had opened
C26_Witness ==
    /\ th[Owner].ret.via = "rate_limit" /\ th[Owner].calls = 0
    /\ rate_limit_until > now
    /\ cfg.cb_threshold = 1
    /\ cb.failure_count = 0 /\ ~cb.is_open /\ cb.last_failure_time # None

----------------------------------------------------------------------------
(* C27: a fetch that is served from the cache (the gates pass, use_cache   *)
(* is True and _should_use_cache returns True) makes no provider call,     *)
(* calls neither record_success nor record_failure (the breaker is as its  *)
(* gate left it), leaves rate_limit_until and the entry's data, metadata,  *)
(* creation time and validation_passed as they were, adds one to hits and  *)
(* to the entry's hit_count, and returns the entry's bars with a report    *)
(* whose is_valid is the entry's validation_passed.                        *)

C27_Hit == Fetch /\ th'[Owner].ret.via = "cache"

C27_Step ==
    C27_Hit
    => /\ th'[Owner].pc = "idle" /\ th'[Owner].calls = 0
       /\ cb' = IF C26_Probe THEN C26_AfterSuccess ELSE cb
       /\ rate_limit_until' = rate_limit_until
       /\ HasCache(cache) /\ HasCache(cache')
       /\ cache'.data = cache.data
       /\ cache'.metadata = cache.metadata
       /\ cache'.creation_time = cache.creation_time
       /\ cache'.validation_passed = cache.validation_passed
       /\ cache'.hit_count = cache.hit_count + 1
       /\ stats' = [stats EXCEPT !.hits = @ + 1]
       /\ th'[Owner].ret.present
       /\ th'[Owner].ret.df.rows = cache.data.rows
       /\ th'[Owner].ret.df.columns = cache.data.columns
       /\ th'[Owner].ret.report =
             [is_valid |-> cache.validation_passed, errors |-> <<>>,
              warnings |-> <<>>, stats |-> <<>>]

C27_HitFrame == [][C27_Step]_vars

\* a hit on an entry stored one second earlier that had failed validation
\* (YFINANCE_CACHE_VALIDATION off): the entry is as old as before and the
\* report says invalid
C27_Witness ==
    /\ th[Owner].ret.via = "cache" /\ th[Owner].calls = 0
    /\ HasCache(cache) /\ cache.hit_count = 1
    /\ now - cache.creation_time = 1
    /\ ~cache.validation_passed
    /\ ~th[Owner].ret.report.is_valid
    /\ th[Owner].ret.df.rows = cache.data.rows

----------------------------------------------------------------------------
(* C28: every cached read that passes the gates while the stored entry is  *)
(* expired adds one to invalidations and one to misses and leaves the      *)
(* entry stored; so n such reads of the same expired entry raise both      *)
(* counters by n.                                                          *)

C28_Expired ==
    /\ cfg.cache_enabled /\ HasCache(cache)
    /\ now - cache.creation_time >= cfg.cache_ttl

C28_Step ==
    (C28_Expired /\ FetchTTL /\ stats' # stats)
    => /\ stats' = [stats EXCEPT !.invalidations = @ + 1, !.misses = @ + 1]
       /\ cache' = cache
       /\ th'[Owner].pc = "call"

C28_EachCheckCounts == [][C28_Step]_vars

\* the second read of an entry that expired before the first: both
\* counters stand at 2 and the entry is still the stored one
C28_Witness ==
    /\ C28_Expired
    /\ cache.hit_count = 0
    /\ stats = [hits |-> 0, misses |-> 2, invalidations |-> 2, evictions |-> 0]
    /\ th[Owner].pc = "call"

----------------------------------------------------------------------------
(* C29: a step in which only time passes (a clock tick, a sleep) changes   *)
(* no stored field: the entry keeps its data, metadata, hit count and      *)
(* validation flag and only grows older, the breaker keeps failure_count   *)
(* and is_open, the counters stay.  A stored entry disappears only in      *)
(* clear_cache and is replaced only by a provider call that succeeds, so   *)
(* an expired entry stays stored through the validity checks made on it;   *)
(* an open breaker is closed only at the gate of a fetch, by can_attempt,  *)
(* once the reset interval has elapsed.                                    *)

C29_TimeOnly == ~Fetch /\ ~C26_ProviderStep /\ ~ClearNoted

C29_Kept(e) ==
    IF HasCache(e)
    THEN <<e.data, e.metadata, e.hit_count, e.validation_passed>>
    ELSE <<>>

C29_Step ==
    /\ C29_TimeOnly
       => /\ C29_Kept(cache') = C29_Kept(cache)
          /\ HasCache(cache) => cache'.creation_time <= cache.creation_time
          /\ cb'.failure_count = cb.failure_count /\ cb'.is_open = cb.is_open
          /\ stats' = stats
    /\ (HasCache(cache) /\ ~HasCache(cache')) => ClearNoted
    /\ (HasCache(cache) /\ HasCache(cache')
           /\ <<cache'.data, cache'.metadata, cache'.validation_passed>>
                # <<cache.data, cache.metadata, cache.validation_passed>>)
       => (C26_ProviderStep /\ th'[Owner].ret.via = "success")
    /\ (HasCache(cache) /\ HasCache(cache')
           /\ cache'.creation_time > cache.creation_time)
       => (C26_ProviderStep /\ th'[Owner].ret.via = "success")
    /\ (cb.is_open /\ ~cb'.is_open) => (Fetch /\ C26_Probe)

C29_LazyOnly == [][C29_Step]_vars

\* an entry that expired, was found expired by a read and is still stored,
\* beside a breaker that is still open after its reset interval
C29_Witness ==
    /\ HasCache(cache)
    /\ now - cache.creation_time > cfg.cache_ttl
    /\ stats.invalidations = 1
    /\ cb.is_open
    /\ now - cb.last_failure_time >= cfg.cb_reset_interval
    /\ th[Owner].pc = "idle"


\* ---------------------------------------------------------------------
\* C30: in every reachable breaker state is_open holds exactly when
\* failure_count has reached the threshold, an open breaker has its
\* last_failure_time set, and so a closed breaker's failure_count is
\* below the threshold.
C30_OpenIffReached == cb.is_open <=> cb.failure_count >= cfg.cb_threshold

C30_OpenHasInstant == cb.is_open => cb.last_failure_time # None

C30_ClosedBelow == ~cb.is_open => cb.failure_count < cfg.cb_threshold

C30_BreakerInvariant ==
    /\ C30_OpenIffReached
    /\ C30_OpenHasInstant
    /\ C30_ClosedBelow

\* the failure that takes a closed breaker with a nonzero count to the
\* threshold
C30_Witness ==
    /\ obs.op = "record_failure"
    /\ ~obs.pre.is_open
    /\ obs.pre.failure_count > 0
    /\ obs.pre.failure_count = cfg.cb_threshold - 1
    /\ cb.is_open
    /\ cb.failure_count = cfg.cb_threshold
    /\ cb.last_failure_time # None

----------------------------------------------------------------------------
(* C31: the breaker has no half-open state.  The can_attempt() call that   *)
(* grants the probe leaves failure_count = 0 and is_open = False, so the   *)
(* record_failure() that follows a failed probe leaves failure_count = 1   *)
(* and re-opens the breaker only where the threshold is 1; from the probe  *)
(* on, attempts are refused again only once threshold failures in a row    *)
(* have been recorded.                                                     *)

C31_ProbeCloses ==
    (obs.op = "can_attempt" /\ obs.pre.is_open /\ obs.ret)
    => (cb.failure_count = 0 /\ ~cb.is_open)

C31_FailedProbe ==
    (obs.op = "record_failure" /\ obs.after_probe)
    => (/\ cb.failure_count = 1
        /\ cb.is_open <=> cfg.cb_threshold = 1)

\* a failure counts one, and opens a closed breaker exactly at the threshold
C31_CountsToThreshold ==
    (obs.op = "record_failure" /\ ~obs.pre.is_open)
    => (/\ cb.failure_count = obs.pre.failure_count + 1
        /\ cb.is_open <=> cb.failure_count >= cfg.cb_threshold)

\* an attempt is refused only with threshold failures on the count
C31_RefusedAtThreshold ==
    (obs.op = "can_attempt" /\ ~obs.ret)
    => (obs.pre.is_open /\ obs.pre.failure_count >= cfg.cb_threshold)

C31_NoHalfOpen ==
    /\ C31_ProbeCloses
    /\ C31_FailedProbe
    /\ C31_CountsToThreshold
    /\ C31_RefusedAtThreshold

\* the failure of a probe, recorded on a breaker of the largest threshold:
\* the breaker stays closed with one failure counted
C31_Witness ==
    /\ obs.op = "record_failure"
    /\ obs.after_probe
    /\ cfg.cb_threshold = MaxThreshold
    /\ ~obs.pre.is_open /\ obs.pre.failure_count = 0
    /\ obs.pre.last_failure_time # None
    /\ ~cb.is_open /\ cb.failure_count = 1

----------------------------------------------------------------------------
(* C32, as the claim states it: a fetch that returns at the rate-limit     *)
(* gate leaves the breaker, the cache entry, the cache statistics and      *)
(* rate_limit_until unchanged.                                             *)

C32_Cooldown == Fetch /\ th'[Owner].ret.via = "rate_limit"

C32_NothingChanges ==
    [][C32_Cooldown
       => (/\ cb' = cb
           /\ cache' = cache
           /\ stats' = stats
           /\ rate_limit_until' = rate_limit_until)]_vars

(* C32, amended: a fetch that returns at the rate-limit gate makes no      *)
(* provider call and leaves the cache entry, the cache statistics,         *)
(* rate_limit_until and the breaker's last_failure_time unchanged; the     *)
(* breaker's failure_count and is_open are unchanged too unless the        *)
(* breaker was open with the reset interval elapsed, in which case the     *)
(* can_attempt() of the breaker gate, which comes first, has set them to   *)
(* 0 and False.                                                            *)

C32_Step ==
    C32_Cooldown
    => /\ rate_limit_until > now
       /\ th'[Owner].pc = "idle" /\ th'[Owner].calls = 0
       /\ cache' = cache
       /\ stats' = stats
       /\ rate_limit_until' = rate_limit_until
       /\ cb'.last_failure_time = cb.last_failure_time
       /\ cb' = IF C26_Probe THEN C26_AfterSuccess ELSE cb

C32_CooldownFrame == [][C32_Step]_vars

\* a fetch refused by the window on a breaker of threshold 2: the window
\* is still running, the reset interval has run out, and the breaker that
\* the rate-limited failure had opened stands closed with no failure counted
C32_Witness ==
    /\ th[Owner].ret.via = "rate_limit" /\ th[Owner].calls = 0
    /\ rate_limit_until > now
    /\ cfg.cb_threshold = 2
    /\ cb.last_failure_time # None
    /\ now - cb.last_failure_time >= cfg.cb_reset_interval
    /\ cb.failure_count = 0 /\ ~cb.is_open

----------------------------------------------------------------------------
(* C33: a fetch that ends in failure leaves the cache entry as it was.     *)
(* No step of it touches the entry: not the entry into the retry loop, not *)
(* a provider call that is retried or that ends the fetch by exhaustion or *)
(* by a malformed shape, and the sleeps only let the entry age.  The entry *)
(* is replaced only by a provider call that succeeds, removed only by      *)
(* clear_cache, and only a hit adds to its hit_count; so an entry that is  *)
(* still valid serves the next cached fetch whatever failures the breaker  *)
(* has counted since it was stored.                                        *)

C33_Failing ==
    /\ C26_ProviderStep
    /\ \/ th'[Owner].pc = "sleep"
       \/ th'[Owner].ret.via \in {"empty", "exhausted", "malformed"}

C33_Servable ==
    /\ cfg.cache_enabled /\ HasCache(cache)
    /\ now - cache.creation_time < cfg.cache_ttl
    /\ cfg.cache_validation => cache.validation_passed

C33_Step ==
    /\ C33_Failing => cache' = cache
    /\ (Fetch /\ th'[Owner].ret.via # "cache") => cache' = cache
    /\ (th[Owner].pc = "sleep" /\ th'[Owner].pc = "call")
       => /\ C29_Kept(cache') = C29_Kept(cache)
          /\ HasCache(cache') = HasCache(cache)
          /\ HasCache(cache)
             => cache'.creation_time =
                    Max(cache.creation_time - th[Owner].delay,
                        now - (cfg.cache_ttl + 1))
    /\ (HasCache(cache') /\ (~HasCache(cache)
                             \/ <<cache'.data, cache'.metadata,
                                  cache'.validation_passed>>
                                # <<cache.data, cache.metadata,
                                    cache.validation_passed>>
                             \/ cache'.creation_time > cache.creation_time
                             \/ cache'.hit_count < cache.hit_count))
       => (C26_ProviderStep /\ th'[Owner].ret.via = "success")
    /\ (HasCache(cache) /\ ~HasCache(cache')) => ClearNoted
    /\ (HasCache(cache) /\ HasCache(cache')
           /\ cache'.hit_count > cache.hit_count) => C27_Hit
    /\ (C20_FetchUsingCache /\ BreakerGate.ret /\ ~RateLimitActive /\ C33_Servable)
       => /\ th'[Owner].ret.via = "cache"
          /\ th'[Owner].ret.df.rows = cache.data.rows
          /\ th'[Owner].calls = 0

C33_FailureKeepsEntry == [][C33_Step]_vars

\* a hit on an entry that a failed fetch has left in place: the breaker
\* still counts the failure, which came after the entry was stored
C33_Witness ==
    /\ th[Owner].ret.via = "cache" /\ th[Owner].calls = 0
    /\ cfg.cb_enabled /\ cb.failure_count >= 1
    /\ HasCache(cache) /\ cache.hit_count = 1
    /\ now - cache.creation_time < cfg.cache_ttl
    /\ th[Owner].ret.df.rows = cache.data.rows

----------------------------------------------------------------------------
(* C34: the validate flag affects neither the result nor the state.        *)
(* Where the flag is read, on a prepared response, the pair returned, the  *)
(* entry stored and the breaker are the same for validate = True and       *)
(* validate = False, for every response and every wall-clock reading; a    *)
(* fetch that returns at a gate or from the cache takes the same step      *)
(* under either flag; a fetch that enters the retry loop carries the flag  *)
(* and nothing else of it, and no later step rewrites it; and the report   *)
(* returned with bars is the validator's report also when validate is      *)
(* False, as in get_latest_price and get_current_bar.                      *)

C34_Asked(v) == [th[Owner] EXCEPT !.validate = v]

C34_Prepared ==
    {Local(df, Owner) :
        df \in UNION {Normalised(raw) :
                        raw \in {f \in RawFrames :
                                    /\ ~IsEmptyFrame(f)
                                    /\ HasTimestampColumn(f)
                                    /\ OHLCV \subseteq f.columns}}}

C34_SameOutcome ==
    th[Owner].pc = "call"
    => \A df \in C34_Prepared, wall \in WallTimes :
           DataOutcome(C34_Asked(TRUE), df, wall)
               = DataOutcome(C34_Asked(FALSE), df, wall)

C34_Step ==
    /\ (Fetch /\ th'[Owner].pc = "idle")
       => /\ \E request \in Requests, use_cache \in BOOLEAN :
                 FetchCall(Owner, request, use_cache, TRUE)
          /\ \E request \in Requests, use_cache \in BOOLEAN :
                 FetchCall(Owner, request, use_cache, FALSE)
    /\ (Fetch /\ th'[Owner].pc = "call")
       => /\ th'[Owner] = [IdleThread EXCEPT
                              !.pc = "call", !.attempt = 1,
                              !.request = th'[Owner].request,
                              !.validate = th'[Owner].validate]
          /\ cb' = BreakerGate.cb
          /\ cache' = cache
          /\ rate_limit_until' = rate_limit_until
          /\ stats' \in {stats, should_use_cache(cache, stats, now, cfg).stats}
    /\ (th[Owner].pc # "idle" /\ th'[Owner].pc # "idle")
       => th'[Owner].validate = th[Owner].validate
    /\ (C26_ProviderStep /\ th'[Owner].ret.via = "success")
       => /\ th'[Owner].validate = th[Owner].validate
          /\ \E wall \in WallTimes :
                 /\ th'[Owner].ret.report
                        = validate_ohlc_data(th'[Owner].ret.df, wall, cfg)
                 /\ cfg.cache_enabled
                    => cache'.validation_passed = th'[Owner].ret.report.is_valid

----------------------------------------------------------------------------
(* C35: neither the cache-hit decision nor the bars served depend on the   *)
(* (period, interval) asked for.  The lookup gives the same answer for     *)
(* every request; a cached fetch that passes the gates is a hit exactly    *)
(* when the one stored entry is servable, whatever request stored it; and  *)
(* the hit returns that entry's bars with no provider call and leaves its  *)
(* metadata as stored, also when the request differs from them.            *)

C35_SameLookup ==
    \A request \in Requests :
        CacheLookup(request, TRUE) = should_use_cache(cache, stats, now, cfg)

C35_Step ==
    /\ (C20_FetchUsingCache /\ BreakerGate.ret /\ ~RateLimitActive)
       => (th'[Owner].ret.via = "cache" <=> C33_Servable)
    /\ C27_Hit
       => /\ th'[Owner].request \in Requests
          /\ th'[Owner].calls = 0
          /\ th'[Owner].ret.df.rows = cache.data.rows
          /\ cache'.metadata = cache.metadata
          /\ cache'.data = cache.data

----------------------------------------------------------------------------
(* C36: hits + misses counts the _should_use_cache evaluations made since  *)
(* the last clear_cache: a fetch with use_cache = True that passes the     *)
(* breaker and rate-limit gates adds exactly one to hits + misses,         *)
(* clear_cache sets the counters to zero, and no other step (a fetch with  *)
(* use_cache = False, a fetch stopped at a gate, a provider call, a sleep, *)
(* the clock) changes a counter.  In every state invalidations <= misses,  *)
(* and a stored entry's hit_count <= hits.                                 *)

C36_Evaluation == C20_FetchUsingCache /\ BreakerGate.ret /\ ~RateLimitActive

C36_Step ==
    /\ C36_Evaluation
       => /\ stats'.hits + stats'.misses = stats.hits + stats.misses + 1
          /\ stats'.hits >= stats.hits /\ stats'.misses >= stats.misses
    /\ ClearNoted => stats'.hits + stats'.misses = 0
    /\ (~C36_Evaluation /\ ~ClearNoted) => stats' = stats

C36_Bounds ==
    /\ stats.invalidations <= stats.misses
    /\ HasCache(cache) => cache.hit_count <= stats.hits

C36_CountsEvaluations == []C36_Bounds /\ [][C36_Step]_vars

\* two evaluations since start: a hit, then a miss on the expired entry;
\* the fetch that missed has stored a new entry, which no hit has read yet
C36_Witness ==
    /\ stats = [hits |-> 1, misses |-> 1, invalidations |-> 1, evictions |-> 0]
    /\ HasCache(cache) /\ cache.hit_count = 0
    /\ th[Owner].ret.via = "success"

----------------------------------------------------------------------------
(* C37: every result of fetch_ohlc without bars, whether it comes from the *)
(* breaker gate, the rate-limit gate, the last empty response, a malformed *)
(* shape or the exhaustion of the attempts, is the pair (None, report)     *)
(* with is_valid = True and no errors, warnings or stats: the value        *)
(* returned is the same for every cause.                                   *)

C37_Causes == {"breaker", "rate_limit", "empty", "malformed", "exhausted"}

C37_Value(r) == <<r.present, r.df, r.report>>

C37_Empty ==
    <<FALSE, NoneDF,
      [is_valid |-> TRUE, errors |-> <<>>, warnings |-> <<>>, stats |-> <<>>]>>

C37_SameForEveryCause ==
    /\ th[Owner].ret.via \in C37_Causes => C37_Value(th[Owner].ret) = C37_Empty
    /\ (th[Owner].ret.via # "none" /\ ~th[Owner].ret.present)
       => th[Owner].ret.via \in C37_Causes

\* the attempts ran out on an error that signalled a rate limit: the window
\* is set and the failure counted, and the report returned says nothing
C37_Witness ==
    /\ th[Owner].ret.via = "exhausted"
    /\ th[Owner].answer.kind = "raise" /\ th[Owner].answer.rate
    /\ rate_limit_until > now
    /\ cb.failure_count >= 1
    /\ C37_Value(th[Owner].ret) = C37_Empty

----------------------------------------------------------------------------
(* C38, as the claim states it: every report that fetch_ohlc returns with  *)
(* bars has is_valid = True exactly when its errors are empty, on the      *)
(* fresh-fetch path and on the cache-hit path alike.                       *)

C38_ValidIffNoErrors ==
    th[Owner].ret.present
    => (th[Owner].ret.report.is_valid <=> th[Owner].ret.report.errors = <<>>)

(* C38, amended: a report returned with bars by a fresh fetch has          *)
(* is_valid = True exactly when its errors are empty.  A report returned   *)
(* by a cache hit has no errors, warnings or stats and carries the         *)
(* entry's validation_passed as is_valid: with YFINANCE_CACHE_VALIDATION   *)
(* on that is True, and with it off a hit on an entry that failed          *)
(* validation returns is_valid = False beside empty errors.                *)

C38_ReportShape ==
    /\ th[Owner].ret.via = "success"
       => /\ th[Owner].ret.present
          /\ th[Owner].ret.report.is_valid <=> th[Owner].ret.report.errors = <<>>
    /\ th[Owner].ret.via = "cache"
       => /\ th[Owner].ret.present
          /\ th[Owner].ret.report.errors = <<>>
          /\ th[Owner].ret.report.warnings = <<>>
          /\ th[Owner].ret.report.stats = <<>>
          /\ HasCache(cache)
          /\ th[Owner].ret.report.is_valid = cache.validation_passed
          /\ cfg.cache_validation => th[Owner].ret.report.is_valid
    /\ th[Owner].ret.present => th[Owner].ret.via \in {"success", "cache"}

\* with YFINANCE_CACHE_VALIDATION off, a hit on an entry that failed
\* validation: bars, is_valid = False and not one error listed
C38_Witness ==
    /\ ~cfg.cache_validation
    /\ th[Owner].ret.via = "cache" /\ th[Owner].ret.present
    /\ ~th[Owner].ret.report.is_valid
    /\ th[Owner].ret.report.errors = <<>>
    /\ Len(th[Owner].ret.df.rows) > 0

----------------------------------------------------------------------------
(* C39: a provider response that is not empty and has neither a 'datetime' *)
(* nor a 'date' column is not retried.  The fetch returns (None, empty     *)
(* report) in the attempt that received it, also when attempts remain,     *)
(* without a backoff wait or a further provider call; the breaker, where   *)
(* there is one, records exactly one failure; rate_limit_until, the cache  *)
(* entry, the counters and the clock are as they were.                     *)

C39_Malformed ==
    /\ th[Owner].pc = "call"
    /\ C26_ProviderStep
    /\ th'[Owner].answer.kind = "frame"
    /\ th'[Owner].answer.raw.rows # <<>>
    /\ th'[Owner].answer.raw.index \notin {"datetime", "date"}

C39_Step ==
    C39_Malformed
    => /\ th'[Owner].pc = "idle"
       /\ th'[Owner].delay = 0
       /\ th'[Owner].calls = th[Owner].attempt
       /\ C37_Value(th'[Owner].ret) = C37_Empty
       /\ th'[Owner].ret.via = "malformed"
       /\ cb' = IF cfg.cb_enabled
                THEN [failure_count     |-> cb.failure_count + 1,
                      last_failure_time |-> now,
                      is_open |-> cb.is_open
                                  \/ cb.failure_count + 1 >= cfg.cb_threshold]
                ELSE cb
       /\ rate_limit_until' = rate_limit_until
       /\ cache' = cache
       /\ stats' = stats
       /\ now' = now

C39_MalformedNotRetried == [][C39_Step]_vars

\* the first of three attempts received a malformed response: the fetch is
\* over after one provider call, with one failure on the breaker
C39_Witness ==
    /\ th[Owner].ret.via = "malformed"
    /\ th[Owner].answer.raw = MalformedRaw
    /\ cfg.retry_attempts = MaxAttempts
    /\ th[Owner].calls = 1
    /\ th[Owner].pc = "idle"
    /\ cb.failure_count = 1 /\ cb.last_failure_time = now
    /\ rate_limit_until = 0

====
